---- MODULE Spec2Model ----
(***************************************************************************)
(* A model of the xmlparser tokenizer (src/src/lib.rs).                    *)
(*                                                                         *)
(* The input buffer is a sequence of bytes.  A byte is written as a string *)
(* of one character; the three bytes of the UTF-8 byte order mark are      *)
(* written "EF", "BB", "BF".  Offsets into the buffer are 0-based, as in   *)
(* the source: the byte at offset p of t is t[p + 1].                      *)
(*                                                                         *)
(* A span is a pair <<start, end>> of offsets (end exclusive).             *)
(***************************************************************************)
EXTENDS Integers, Sequences, FiniteSets, TLC

VARIABLES
    text,               \* the buffer the Stream scans (never modified)
    pos,                \* Tokenizer.stream position
    state,              \* Tokenizer.state
    depth,              \* Tokenizer.depth
    fragment_parsing,   \* Tokenizer.fragment_parsing
    ret,                \* what the latest call of next() returned
    results,            \* history: the Some(..) results of next(), in order
    before,             \* history: the Tokenizer's fields when next() was last called
    after,              \* history: the Tokenizer's fields when that call returned
    late_fragment       \* history: enable_fragment_mode was called after a pull

vars == <<text, pos, state, depth, fragment_parsing, ret, results, before, after,
          late_fragment>>

-----------------------------------------------------------------------------
(* Character classification (xmlchar).                                     *)

Digits == {"0", "1", "2", "3", "4", "5", "6", "7", "8", "9"}

Letters ==
    {"a", "b", "c", "d", "e", "f", "g", "h", "i", "j", "k", "l", "m",
     "n", "o", "p", "q", "r", "s", "t", "u", "v", "w", "x", "y", "z",
     "A", "B", "C", "D", "E", "F", "G", "H", "I", "J", "K", "L", "M",
     "N", "O", "P", "Q", "R", "S", "T", "U", "V", "W", "X", "Y", "Z"}

\* The bytes of U+FEFF in UTF-8.
BOM == <<"EF", "BB", "BF">>

\* Bytes that continue a multi-byte UTF-8 character.
IsContinuation(c) == c \in {"BB", "BF"}

is_xml_space(c) == c \in {" ", "\t", "\n", "\r"}

is_xml_digit(c) == c \in Digits

is_xml_letter(c) == c \in Letters

is_xml_name_start(c) == c \in Letters \cup {":", "_"}

is_xml_name(c) == c \in Letters \cup Digits \cup {":", "_", "-", "."}

\* Char ::= #x9 | #xA | #xD | [#x20-#xD7FF] | ...: the form feed (#xC) is the
\* control character of the model's alphabet.
is_xml_char(c) == c # "\f"

-----------------------------------------------------------------------------
(* Stream: the cursor over the buffer.  An operation that only moves the   *)
(* cursor is modelled by the offset it leaves; one that can fail by a      *)
(* record [ok, pos, ...] with the StreamError kind in err.                 *)

NoSpan == <<-1, -1>>

SOk(p) == [ok |-> TRUE, pos |-> p, err |-> "", span |-> NoSpan, byte |-> ""]

SOkSpan(p, sp) == [ok |-> TRUE, pos |-> p, err |-> "", span |-> sp, byte |-> ""]

SOkByte(p, c) == [ok |-> TRUE, pos |-> p, err |-> "", span |-> NoSpan, byte |-> c]

SErr(e) == [ok |-> FALSE, pos |-> -1, err |-> e, span |-> NoSpan, byte |-> ""]

at_end(t, p) == p >= Len(t)

starts_with(t, p, lit) ==
    /\ p + Len(lit) <= Len(t)
    /\ \A i \in 1..Len(lit) : t[p + i] = lit[i]

starts_with_space(t, p) == p < Len(t) /\ is_xml_space(t[p + 1])

Min(S) == CHOOSE x \in S : \A y \in S : x <= y

\* Where a scanning loop that began at offset p leaves the cursor: at the first
\* offset q >= p among stops (the offsets at which the loop's predicate
\* fails), or at the end of the buffer.
ScanTo(t, p, stops) ==
    LET c == {q \in stops : q >= p}
    IN  IF c = {} THEN Len(t) ELSE Min(c)

skip_spaces(t, p) == ScanTo(t, p, {q \in p..(Len(t) - 1) : ~is_xml_space(t[q + 1])})

skip_ascii_spaces(t, p) == ScanTo(t, p, {q \in p..(Len(t) - 1) : ~is_xml_space(t[q + 1])})

consume_spaces(t, p) ==
    IF at_end(t, p) THEN SErr("UnexpectedEndOfStream")
    ELSE IF ~starts_with_space(t, p) THEN SErr("InvalidSpace")
    ELSE SOk(skip_spaces(t, p))

skip_string(t, p, lit) ==
    IF starts_with(t, p, lit) THEN SOk(p + Len(lit)) ELSE SErr("InvalidString")

consume_byte(t, p, c) ==
    IF at_end(t, p) THEN SErr("UnexpectedEndOfStream")
    ELSE IF t[p + 1] # c THEN SErr("InvalidChar")
    ELSE SOk(p + 1)

consume_either(t, p, list) ==
    IF at_end(t, p) THEN SErr("UnexpectedEndOfStream")
    ELSE IF t[p + 1] \notin list THEN SErr("InvalidChar")
    ELSE SOkByte(p + 1, t[p + 1])

consume_quote(t, p) ==
    IF at_end(t, p) THEN SErr("UnexpectedEndOfStream")
    ELSE IF t[p + 1] \notin {"\"", "'"} THEN SErr("InvalidQuote")
    ELSE SOkByte(p + 1, t[p + 1])

\* Eq ::= S? '=' S?
consume_eq(t, p) ==
    LET b == consume_byte(t, skip_ascii_spaces(t, p), "=")
    IN  IF ~b.ok THEN b ELSE SOk(skip_ascii_spaces(t, b.pos))

\* Name ::= NameStartChar (NameChar)*
skip_name(t, p) ==
    IF at_end(t, p) \/ ~is_xml_name_start(t[p + 1]) THEN SErr("InvalidName")
    ELSE SOk(ScanTo(t, p + 1, {q \in (p + 1)..(Len(t) - 1) : ~is_xml_name(t[q + 1])}))

consume_name(t, p) ==
    LET n == skip_name(t, p)
    IN  IF ~n.ok THEN n ELSE SOkSpan(n.pos, <<p, n.pos>>)

\* The offsets of the ':' bytes in t[p+1 .. q].
Colons(t, p, q) == {i \in p..(q - 1) : t[i + 1] = ":"}

\* A Name split on its first ':' into prefix and local part; without a colon
\* the prefix is the empty span at the start of the name.
consume_qname(t, p) ==
    LET e   == ScanTo(t, p, {q \in p..(Len(t) - 1) : ~is_xml_name(t[q + 1])})
        cs  == Colons(t, p, e)
        pre == IF cs = {} THEN <<p, p>> ELSE <<p, Min(cs)>>
        loc == IF cs = {} THEN <<p, e>> ELSE <<Min(cs) + 1, e>>
    IN  IF pre[1] < pre[2] /\ ~is_xml_name_start(t[pre[1] + 1]) THEN SErr("InvalidName")
        ELSE IF loc[1] >= loc[2] \/ ~is_xml_name_start(t[loc[1] + 1]) THEN SErr("InvalidName")
        ELSE [ok |-> TRUE, pos |-> e, err |-> "", span |-> loc, byte |-> "", prefix |-> pre]

slice_back(t, p, start) == <<start, p>>

jump_to_end(t) == Len(t)

\* TextPos: the 1-based row and column of the byte at offset p, counted from
\* the start of the buffer; an offset past the end counts as the end.
LineStart(t, e) ==
    LET nl == {i \in 1..e : t[i] = "\n"}
    IN  IF nl = {} THEN 0 ELSE CHOOSE i \in nl : \A j \in nl : j <= i

gen_text_pos_from(t, p) ==
    LET e == IF p > Len(t) THEN Len(t) ELSE p
    IN  [row |-> 1 + Cardinality({i \in 1..e : t[i] = "\n"}),
         col |-> 1 + Cardinality({i \in (LineStart(t, e) + 1)..e : ~IsContinuation(t[i])})]

-----------------------------------------------------------------------------
(* Tokens and errors.  Every value next() can return has the same shape:   *)
(*   tag   "None", "Token" or "Error";                                     *)
(*   kind  the Token variant, or the Error variant;                        *)
(*   sub   ElementEnd's variant, Declaration's standalone flag, the        *)
(*         variant of an ExternalId or EntityDefinition; the TokenType of  *)
(*         an error;                                                       *)
(*   spans the StrSpan payload, in the order of the variant's fields       *)
(*         (NoSpan for an absent Option<StrSpan>);                         *)
(*   off, row, col  of an error: the offset its TextPos was resolved from  *)
(*         and the TextPos; cause: the StreamError kind, "None" if none.   *)

None ==
    [tag |-> "None", kind |-> "", sub |-> "", spans |-> <<>>,
     off |-> -1, row |-> 0, col |-> 0, cause |-> ""]

NotCalled ==
    [tag |-> "NotCalled", kind |-> "", sub |-> "", spans |-> <<>>,
     off |-> -1, row |-> 0, col |-> 0, cause |-> ""]

Token(kind, sub, spans) ==
    [tag |-> "Token", kind |-> kind, sub |-> sub, spans |-> spans,
     off |-> -1, row |-> 0, col |-> 0, cause |-> ""]

Error(t, kind, token_type, off, cause) ==
    [tag |-> "Error", kind |-> kind, sub |-> token_type, spans |-> <<>>,
     off |-> off, row |-> gen_text_pos_from(t, off).row,
     col |-> gen_text_pos_from(t, off).col, cause |-> cause]

\* StreamResult<Token>: on failure the cursor is not tracked, because next()
\* moves it to the end of the buffer after every error.
IOk(p, tok) == [ok |-> TRUE, pos |-> p, tok |-> tok, err |-> ""]

IErr(e) == [ok |-> FALSE, pos |-> -1, tok |-> None, err |-> e]

\* Option<Result<Token>> together with the cursor the call leaves.
Out(p, r) == [pos |-> p, r |-> r]

\* The bytes a span covers.
to_str(t, sp) == SubSeq(t, sp[1] + 1, sp[2])

\* str::contains for a two-byte pattern / a byte.
contains2(t, sp, a, b) == \E i \in sp[1]..(sp[2] - 2) : t[i + 1] = a /\ t[i + 2] = b

contains(t, sp, c) == \E i \in sp[1]..(sp[2] - 1) : t[i + 1] = c

\* A map_err_at! that resolves the position from the cursor itself, without
\* stepping back over the lead bytes.
map_err_at_from_cursor(t, res, token_type, p, d) ==
    IF res.ok THEN Out(res.pos, res.tok)
    ELSE Out(res.pos, Error(t, "InvalidToken", token_type, p, res.err))

\* map_err_at!: the error position is resolved from the cursor at the
\* recognizer's entry plus d (negative), clamped to zero.
map_err_at(t, res, token_type, p, d) ==
    LET start == IF p + d < 0 THEN 0 ELSE p + d
    IN  IF res.ok THEN Out(res.pos, res.tok)
        ELSE Out(res.pos, Error(t, "InvalidToken", token_type, start, res.err))

-----------------------------------------------------------------------------
(* Byte string literals of the grammar.                                    *)

L_xml_sp     == <<"?", "x", "m", "l", " ">>
L_version    == <<"v", "e", "r", "s", "i", "o", "n">>
L_encoding   == <<"e", "n", "c", "o", "d", "i", "n", "g">>
L_standalone == <<"s", "t", "a", "n", "d", "a", "l", "o", "n", "e">>
L_yes        == <<"y", "e", "s">>
L_no         == <<"n", "o">>
L_DOCTYPE    == <<"D", "O", "C", "T", "Y", "P", "E">>
L_ELEMENT    == <<"E", "L", "E", "M", "E", "N", "T">>
L_ATTLIST    == <<"A", "T", "T", "L", "I", "S", "T">>
L_ENTITY     == <<"E", "N", "T", "I", "T", "Y">>
L_NOTATION   == <<"N", "O", "T", "A", "T", "I", "O", "N">>
L_CDATA      == <<"[", "C", "D", "A", "T", "A", "[">>
L_SYSTEM     == <<"S", "Y", "S", "T", "E", "M">>
L_PUBLIC     == <<"P", "U", "B", "L", "I", "C">>
L_NDATA      == <<"N", "D", "A", "T", "A">>

-----------------------------------------------------------------------------
(* The recognizers.                                                        *)

parse_version_info(t, p) ==
    LET s1 == skip_string(t, skip_ascii_spaces(t, p), L_version)
    IN  IF ~s1.ok THEN s1 ELSE
    LET s2 == consume_eq(t, s1.pos)
    IN  IF ~s2.ok THEN s2 ELSE
    LET s3 == consume_quote(t, s2.pos)
    IN  IF ~s3.ok THEN s3 ELSE
    LET start == s3.pos
        s4 == skip_string(t, start, <<"1", ".">>)
    IN  IF ~s4.ok THEN s4 ELSE
    LET e  == ScanTo(t, s4.pos, {q \in s4.pos..(Len(t) - 1) : ~is_xml_digit(t[q + 1])})
        s5 == consume_quote(t, e)
    IN  IF ~s5.ok THEN s5 ELSE SOkSpan(s5.pos, slice_back(t, e, start))

\* S 'encoding' Eq ('"' EncName '"' | "'" EncName "'" )
parse_encoding_decl(t, p) ==
    LET p1 == skip_ascii_spaces(t, p)
        s1 == skip_string(t, p1, L_encoding)
    IN  IF ~s1.ok THEN SOkSpan(p1, NoSpan) ELSE
    LET s2 == consume_eq(t, s1.pos)
    IN  IF ~s2.ok THEN s2 ELSE
    LET s3 == consume_quote(t, s2.pos)
    IN  IF ~s3.ok THEN s3 ELSE
    LET e  == ScanTo(t, s3.pos,
                     {q \in s3.pos..(Len(t) - 1) :
                        ~(is_xml_letter(t[q + 1]) \/ is_xml_digit(t[q + 1])
                            \/ t[q + 1] \in {".", "-", "_"})})
        s4 == consume_quote(t, e)
    IN  IF ~s4.ok THEN s4 ELSE SOkSpan(s4.pos, <<s3.pos, e>>)

\* S 'standalone' Eq (("'" ('yes' | 'no') "'") | ('"' ('yes' | 'no') '"'))
\* The flag is returned in byte: "" (absent), "yes" or "no".
parse_standalone(t, p) ==
    LET p1 == skip_ascii_spaces(t, p)
        s1 == skip_string(t, p1, L_standalone)
    IN  IF ~s1.ok THEN SOkByte(p1, "") ELSE
    LET s2 == consume_eq(t, s1.pos)
    IN  IF ~s2.ok THEN s2 ELSE
    LET s3 == consume_quote(t, s2.pos)
    IN  IF ~s3.ok THEN s3 ELSE
    LET s4 == consume_name(t, s3.pos)
    IN  IF ~s4.ok THEN s4 ELSE
    LET value == to_str(t, s4.span)
    IN  IF value # L_yes /\ value # L_no THEN SErr("InvalidString") ELSE
    LET s5 == consume_quote(t, s4.pos)
    IN  IF ~s5.ok THEN s5 ELSE SOkByte(s5.pos, IF value = L_yes THEN "yes" ELSE "no")

\* parse_declaration_impl once parse_standalone has returned: `?>`.
declaration_end(t, version, encoding, standalone) ==
    IF ~standalone.ok THEN IErr(standalone.err) ELSE
    LET s1 == skip_string(t, skip_ascii_spaces(t, standalone.pos), <<"?", ">">>)
    IN  IF ~s1.ok THEN IErr(s1.err)
        ELSE IOk(s1.pos, Token("Declaration", standalone.byte,
                               <<version.span, encoding.span>>))

\* parse_declaration_impl once parse_encoding_decl has returned.
declaration_standalone(t, version, encoding) ==
    IF ~encoding.ok THEN IErr(encoding.err)
    ELSE declaration_end(t, version, encoding, parse_standalone(t, encoding.pos))

\* parse_declaration_impl once parse_version_info has returned.
declaration_encoding(t, version) ==
    IF ~version.ok THEN IErr(version.err)
    ELSE declaration_standalone(t, version, parse_encoding_decl(t, version.pos))

parse_declaration_impl(t, p) == declaration_encoding(t, parse_version_info(t, p))

parse_declaration(t, p) ==
    map_err_at(t, parse_declaration_impl(t, p), "XMLDecl", p, -6)

\* A parse_comment that does not look for `--` in the body.
parse_comment_allows_double_hyphen(t, p) ==
    LET start == p - 4
        e == ScanTo(t, p, {q \in p..(Len(t) - 1) :
                            (t[q + 1] = "-" /\ starts_with(t, q, <<"-", "-", ">">>))
                                \/ ~is_xml_char(t[q + 1])})
        txt == <<p, e>>
    IN  IF ~skip_string(t, e, <<"-", "-", ">">>).ok
        THEN Out(e, Error(t, "InvalidToken", "Comment", start, "None"))
        ELSE Out(e + 3, Token("Comment", "", <<txt>>))

\* '<!--' ((Char - '-') | ('-' (Char - '-')))* '-->'
parse_comment(t, p) ==
    LET start == p - 4
        e == ScanTo(t, p, {q \in p..(Len(t) - 1) :
                            (t[q + 1] = "-" /\ starts_with(t, q, <<"-", "-", ">">>))
                                \/ ~is_xml_char(t[q + 1])})
        txt == <<p, e>>
    IN  IF contains2(t, txt, "-", "-")
        THEN Out(e, Error(t, "InvalidToken", "Comment", start, "None"))
        ELSE IF ~skip_string(t, e, <<"-", "-", ">">>).ok
        THEN Out(e, Error(t, "InvalidToken", "Comment", start, "None"))
        ELSE Out(e + 3, Token("Comment", "", <<txt>>))

\* PI       ::= '<?' PITarget (S (Char* - (Char* '?>' Char*)))? '?>'
parse_pi_impl(t, p) ==
    LET target == consume_name(t, p)
    IN  IF ~target.ok THEN IErr(target.err) ELSE
    LET p1 == skip_spaces(t, target.pos)
        e  == ScanTo(t, p1, {q \in p1..(Len(t) - 1) :
                            (t[q + 1] = "?" /\ starts_with(t, q, <<"?", ">">>))
                                \/ ~is_xml_char(t[q + 1])})
        content == IF e > p1 THEN <<p1, e>> ELSE NoSpan
        s1 == skip_string(t, e, <<"?", ">">>)
    IN  IF ~s1.ok THEN IErr(s1.err)
        ELSE IOk(s1.pos, Token("ProcessingInstruction", "", <<target.span, content>>))

parse_pi(t, p) == map_err_at(t, parse_pi_impl(t, p), "PI", p, -2)

\* ExternalID ::= 'SYSTEM' S SystemLiteral | 'PUBLIC' S PubidLiteral S SystemLiteral
\* Option<ExternalId>: sub is "None", "System" or "Public", lits the literals.
EOk(p, sub, lits) == [ok |-> TRUE, pos |-> p, err |-> "", sub |-> sub, lits |-> lits]

EErr(e) == [ok |-> FALSE, pos |-> -1, err |-> e, sub |-> "None", lits |-> <<>>]

\* let quote = consume_quote()?; let literal = consume_bytes(|_, c| c != quote);
\* consume_byte(quote)?  --  for the result quote of consume_quote, the span
\* between the quotes and the cursor after the closing one.
quoted(t, quote) ==
    IF ~quote.ok THEN quote ELSE
    LET e  == ScanTo(t, quote.pos,
                     {q \in quote.pos..(Len(t) - 1) : t[q + 1] = quote.byte})
        s1 == consume_byte(t, e, quote.byte)
    IN  IF ~s1.ok THEN s1 ELSE SOkSpan(s1.pos, <<quote.pos, e>>)

\* parse_external_id once the second literal of a PUBLIC id has been read.
external_id_public(literal1, literal2) ==
    IF ~literal2.ok THEN EErr(literal2.err)
    ELSE EOk(literal2.pos, "Public", <<literal1.span, literal2.span>>)

\* parse_external_id once the first literal has been read.
external_id_literal(t, id, literal1) ==
    IF ~literal1.ok THEN EErr(literal1.err)
    ELSE IF to_str(t, id) = L_SYSTEM
    THEN EOk(literal1.pos, "System", <<literal1.span>>) ELSE
    LET s3 == consume_spaces(t, literal1.pos)
    IN  IF ~s3.ok THEN EErr(s3.err)
        ELSE external_id_public(literal1, quoted(t, consume_quote(t, s3.pos)))

parse_external_id(t, p) ==
    IF ~(starts_with(t, p, L_SYSTEM) \/ starts_with(t, p, L_PUBLIC))
    THEN EOk(p, "None", <<>>) ELSE
    LET start == p
        id == slice_back(t, p + 6, start)
        s1 == consume_spaces(t, p + 6)
    IN  IF ~s1.ok THEN EErr(s1.err)
        ELSE external_id_literal(t, id, quoted(t, consume_quote(t, s1.pos)))

\* parse_doctype_impl once parse_external_id has returned.
doctype_end(t, name, id) ==
    IF ~id.ok THEN IErr(id.err) ELSE
    LET c == consume_either(t, skip_spaces(t, id.pos), {"[", ">"})
    IN  IF ~c.ok THEN IErr(c.err)
        ELSE IF c.byte = "["
        THEN IOk(c.pos, Token("DtdStart", id.sub, <<name.span>> \o id.lits))
        ELSE IOk(c.pos, Token("EmptyDtd", id.sub, <<name.span>> \o id.lits))

\* parse_doctype_impl once consume_name has returned.
doctype_id(t, name) ==
    IF ~name.ok THEN IErr(name.err)
    ELSE doctype_end(t, name, parse_external_id(t, skip_spaces(t, name.pos)))

\* doctypedecl ::= '<!DOCTYPE' S Name (S ExternalID)? S? ('[' intSubset ']' S?)? '>'
parse_doctype_impl(t, p) ==
    LET s1 == consume_spaces(t, p)
    IN  IF ~s1.ok THEN IErr(s1.err) ELSE doctype_id(t, consume_name(t, s1.pos))

parse_doctype(t, p) == map_err_at(t, parse_doctype_impl(t, p), "DoctypeDecl", p, -9)

\* A parse_entity_def that skips an NDataDecl after every external ID, also
\* that of a parameter entity.
entity_def_ndata_for_every_entity(t, id, is_ge) ==
    IF ~id.ok THEN EErr(id.err)
    ELSE IF id.sub = "None" THEN EErr("InvalidExternalID") ELSE
    LET p1 == skip_spaces(t, id.pos)
    IN  IF ~starts_with(t, p1, L_NDATA) THEN EOk(p1, id.sub, id.lits) ELSE
    LET s2 == consume_spaces(t, p1 + 5)
    IN  IF ~s2.ok THEN EErr(s2.err) ELSE
    LET s3 == skip_name(t, s2.pos)
    IN  IF ~s3.ok THEN EErr(s3.err)
        ELSE EOk(s3.pos, id.sub, id.lits)

\* parse_entity_def once parse_external_id has returned: the optional NDataDecl
\* of a general entity.
entity_def_ndata(t, id, is_ge) ==
    IF ~id.ok THEN EErr(id.err)
    ELSE IF id.sub = "None" THEN EErr("InvalidExternalID")
    ELSE IF ~is_ge THEN id ELSE
    LET p1 == skip_spaces(t, id.pos)
    IN  IF ~starts_with(t, p1, L_NDATA) THEN EOk(p1, id.sub, id.lits) ELSE
    LET s2 == consume_spaces(t, p1 + 5)
    IN  IF ~s2.ok THEN EErr(s2.err) ELSE
    LET s3 == skip_name(t, s2.pos)
    IN  IF ~s3.ok THEN EErr(s3.err)
        ELSE EOk(s3.pos, id.sub, id.lits)

\* parse_entity_def once the EntityValue literal has been read.
entity_def_value(value) ==
    IF ~value.ok THEN EErr(value.err)
    ELSE EOk(value.pos, "EntityValue", <<value.span>>)

\* EntityDef   ::= EntityValue | (ExternalID NDataDecl?)
\* PEDef       ::= EntityValue | ExternalID
\* NDataDecl   ::= S 'NDATA' S Name
\* EntityDefinition: sub is "EntityValue", "System" or "Public".
parse_entity_def(t, p, is_ge) ==
    IF at_end(t, p) THEN EErr("UnexpectedEndOfStream")
    ELSE IF t[p + 1] \in {"\"", "'"}
    THEN entity_def_value(quoted(t, consume_quote(t, p)))
    ELSE IF t[p + 1] \in {"S", "P"}
    THEN entity_def_ndata(t, parse_external_id(t, p), is_ge)
    ELSE EErr("InvalidChar")

\* parse_entity_decl_impl once parse_entity_def has returned.
entity_decl_end(t, name, def) ==
    IF ~def.ok THEN IErr(def.err) ELSE
    LET s4 == consume_byte(t, skip_spaces(t, def.pos), ">")
    IN  IF ~s4.ok THEN IErr(s4.err)
        ELSE IOk(s4.pos, Token("EntityDeclaration", def.sub, <<name.span>> \o def.lits))

\* parse_entity_decl_impl once consume_name has returned.
entity_decl_def(t, name, is_ge) ==
    IF ~name.ok THEN IErr(name.err) ELSE
    LET s3 == consume_spaces(t, name.pos)
    IN  IF ~s3.ok THEN IErr(s3.err)
        ELSE entity_decl_end(t, name, parse_entity_def(t, s3.pos, is_ge))

\* GEDecl      ::= '<!ENTITY' S Name S EntityDef S? '>'
\* PEDecl      ::= '<!ENTITY' S '%' S Name S PEDef S? '>'
parse_entity_decl_impl(t, p) ==
    LET s1 == consume_spaces(t, p)
    IN  IF ~s1.ok THEN IErr(s1.err) ELSE
        IF at_end(t, s1.pos) THEN IErr("UnexpectedEndOfStream") ELSE
    LET is_ge == t[s1.pos + 1] # "%"
        s2 == IF is_ge THEN s1 ELSE consume_spaces(t, s1.pos + 1)
    IN  IF ~s2.ok THEN IErr(s2.err)
        ELSE entity_decl_def(t, consume_name(t, s2.pos), is_ge)

parse_entity_decl(t, p) ==
    map_err_at(t, parse_entity_decl_impl(t, p), "EntityDecl", p, -8)

consume_decl(t, p) ==
    LET s1 == consume_spaces(t, p)
    IN  IF ~s1.ok THEN s1
        ELSE consume_byte(t, ScanTo(t, s1.pos,
                                    {q \in s1.pos..(Len(t) - 1) : t[q + 1] = ">"}), ">")

\* CDSect  ::= CDStart CData CDEnd
parse_cdata_impl(t, p) ==
    LET e == ScanTo(t, p, {q \in p..(Len(t) - 1) :
                            t[q + 1] = "]" /\ starts_with(t, q, <<"]", "]", ">">>)})
        s1 == skip_string(t, e, <<"]", "]", ">">>)
    IN  IF ~s1.ok THEN IErr(s1.err) ELSE IOk(s1.pos, Token("Cdata", "", <<<<p, e>>>>))

parse_cdata(t, p) == map_err_at(t, parse_cdata_impl(t, p), "CDSect", p, -9)

\* '<' Name (S Attribute)* S? '>'
parse_element_start_impl(t, p) ==
    LET n == consume_qname(t, p)
    IN  IF ~n.ok THEN IErr(n.err)
        ELSE IOk(n.pos, Token("ElementStart", "", <<n.prefix, n.span>>))

parse_element_start(t, p) ==
    map_err_at(t, parse_element_start_impl(t, p), "ElementStart", p, -1)

\* The name of the start tag nearest before offset q (<<>> if there is none).
NearestOpenName(t, q) ==
    LET opens == {i \in 0..(q - 1) : t[i + 1] = "<" /\ t[i + 2] \notin {"/", "!", "?"}}
        i == CHOOSE j \in opens : \A k \in opens : k <= j
    IN  IF opens = {} \/ ~consume_qname(t, i + 1).ok THEN <<>>
        ELSE to_str(t, consume_qname(t, i + 1).span)

\* A recognizer that refuses a closing tag whose name is not that of the
\* start tag nearest before it.
parse_close_element_impl_matching(t, p) ==
    LET n == consume_qname(t, p)
    IN  IF ~n.ok THEN IErr(n.err) ELSE
        IF to_str(t, n.span) # NearestOpenName(t, p - 2) THEN IErr("InvalidName") ELSE
    LET s1 == consume_byte(t, skip_ascii_spaces(t, n.pos), ">")
    IN  IF ~s1.ok THEN IErr(s1.err)
        ELSE IOk(s1.pos, Token("ElementEnd", "Close", <<n.prefix, n.span>>))

\* '</' Name S? '>'
parse_close_element_impl(t, p) ==
    LET n == consume_qname(t, p)
    IN  IF ~n.ok THEN IErr(n.err) ELSE
    LET s1 == consume_byte(t, skip_ascii_spaces(t, n.pos), ">")
    IN  IF ~s1.ok THEN IErr(s1.err)
        ELSE IOk(s1.pos, Token("ElementEnd", "Close", <<n.prefix, n.span>>))

parse_close_element(t, p) ==
    map_err_at(t, parse_close_element_impl(t, p), "ElementClose", p, -2)

\* An attribute value whose closing quote is consumed before `<` is looked
\* for.
attribute_value_quote_first(t, n, quote) ==
    IF ~quote.ok THEN IErr(quote.err) ELSE
    LET e == ScanTo(t, quote.pos,
                    {q \in quote.pos..(Len(t) - 1) : t[q + 1] = quote.byte})
        value == <<quote.pos, e>>
        s3 == consume_byte(t, e, quote.byte)
    IN  IF ~s3.ok THEN IErr(s3.err)
        ELSE IF contains(t, value, "<") THEN IErr("InvalidAttributeValue")
        ELSE IOk(skip_ascii_spaces(t, s3.pos),
                 Token("Attribute", "", <<n.prefix, n.span, value>>))

\* parse_attribute once consume_quote has returned: the value, which must not
\* hold `<`, and the closing quote.
attribute_value(t, n, quote) ==
    IF ~quote.ok THEN IErr(quote.err) ELSE
    LET e == ScanTo(t, quote.pos,
                    {q \in quote.pos..(Len(t) - 1) : t[q + 1] = quote.byte})
        value == <<quote.pos, e>>
    IN  IF contains(t, value, "<") THEN IErr("InvalidAttributeValue") ELSE
    LET s3 == consume_byte(t, e, quote.byte)
    IN  IF ~s3.ok THEN IErr(s3.err)
        ELSE IOk(skip_ascii_spaces(t, s3.pos),
                 Token("Attribute", "", <<n.prefix, n.span, value>>))

\* The attribute name n is the name of an earlier attribute of the tag it is
\* in: ` name=` occurs between the tag's `<` and the name.
NameRepeats(t, n) ==
    LET from == n.prefix[1]
        name == to_str(t, <<from, n.span[2]>>)
        opens == {i \in 0..(from - 1) : t[i + 1] = "<"}
    IN  \E q \in 0..(from - 1) :
            /\ \A i \in opens : i < q
            /\ starts_with(t, q, <<" ">> \o name \o <<"=">>)

\* An attribute recognizer that refuses a name the element already has.
attribute_eq_rejects_repeated_name(t, n) ==
    IF ~n.ok THEN IErr(n.err) ELSE
    IF NameRepeats(t, n) THEN IErr("InvalidName") ELSE
    LET s2 == consume_eq(t, n.pos)
    IN  IF ~s2.ok THEN IErr(s2.err)
        ELSE attribute_value(t, n, consume_quote(t, s2.pos))

\* parse_attribute once consume_qname has returned: Eq and the opening quote.
attribute_eq(t, n) ==
    IF ~n.ok THEN IErr(n.err) ELSE
    LET s2 == consume_eq(t, n.pos)
    IN  IF ~s2.ok THEN IErr(s2.err)
        ELSE attribute_value(t, n, consume_quote(t, s2.pos))

\* Name Eq AttValue
parse_attribute(t, p) ==
    LET p1 == skip_ascii_spaces(t, p)
    IN  IF ~at_end(t, p1) /\ t[p1 + 1] = "/" THEN
            LET s1 == consume_byte(t, p1 + 1, ">")
            IN  IF ~s1.ok THEN IErr(s1.err)
                ELSE IOk(s1.pos, Token("ElementEnd", "Empty", <<>>))
        ELSE IF ~at_end(t, p1) /\ t[p1 + 1] = ">" THEN
            IOk(p1 + 1, Token("ElementEnd", "Open", <<>>))
        ELSE attribute_eq(t, consume_qname(t, p1))

\* A text recognizer that consumes nothing.
parse_text_consumes_nothing(t, p) == Out(p, Token("Whitespaces", "", <<<<p, p>>>>))

\* A text recognizer that classifies the run by its first byte.
parse_text_classifies_by_first_byte(t, p) ==
    LET e == ScanTo(t, p, {q \in p..(Len(t) - 1) : t[q + 1] = "<"})
    IN  IF starts_with_space(t, p)
        THEN Out(e, Token("Whitespaces", "", <<<<p, e>>>>))
        ELSE Out(e, Token("Text", "", <<<<p, e>>>>))

\* Token::Text and Token::Whitespaces: the bytes up to the next `<`.
parse_text(t, p) ==
    LET e == ScanTo(t, p, {q \in p..(Len(t) - 1) : t[q + 1] = "<"})
        txt == <<p, e>>
        ts == to_str(t, txt)
    IN  IF at_end(ts, skip_spaces(ts, 0))
        THEN Out(e, Token("Whitespaces", "", <<txt>>))
        ELSE Out(e, Token("Text", "", <<txt>>))

-----------------------------------------------------------------------------
(* Classification and dispatch.                                            *)

TOk(p, tt) == [ok |-> TRUE, pos |-> p, tt |-> tt]

TErr == [ok |-> FALSE, pos |-> -1, tt |-> "Unknown"]

\* A parse_token_type that advances over `<!` of a comment but not over its
\* `--`.
parse_token_type_comment_lead_short(t, p, st) ==
    IF at_end(t, p) THEN TErr
    ELSE IF t[p + 1] = "<" THEN
        IF at_end(t, p + 1) THEN TErr
        ELSE IF t[p + 2] = "?" THEN
            IF starts_with(t, p + 1, L_xml_sp) THEN TOk(p + 6, "XMLDecl")
            ELSE TOk(p + 2, "PI")
        ELSE IF t[p + 2] = "!" THEN
            IF at_end(t, p + 2) THEN TErr
            ELSE IF starts_with(t, p + 2, <<"-", "-">>) THEN TOk(p + 2, "Comment")
            ELSE IF starts_with(t, p + 2, L_DOCTYPE) THEN TOk(p + 9, "DoctypeDecl")
            ELSE IF starts_with(t, p + 2, L_ELEMENT) THEN TOk(p + 9, "ElementDecl")
            ELSE IF starts_with(t, p + 2, L_ATTLIST) THEN TOk(p + 9, "AttlistDecl")
            ELSE IF starts_with(t, p + 2, L_ENTITY) THEN TOk(p + 8, "EntityDecl")
            ELSE IF starts_with(t, p + 2, L_NOTATION) THEN TOk(p + 10, "NotationDecl")
            ELSE IF starts_with(t, p + 2, L_CDATA) THEN TOk(p + 9, "CDSect")
            ELSE TOk(p + 2, "Unknown")
        ELSE IF t[p + 2] = "/" THEN TOk(p + 2, "ElementClose")
        ELSE TOk(p + 1, "ElementStart")
    ELSE IF starts_with(t, p, <<"]", ">">>) THEN TOk(p + 2, "DoctypeEnd")
    ELSE IF st \in {"Start", "AfterDtd", "AfterElements", "Dtd"} THEN
        IF starts_with_space(t, p) THEN TOk(p, "Whitespace") ELSE TOk(p, "Unknown")
    ELSE IF st = "Elements" THEN TOk(p, "CharData")
    ELSE TOk(p, "Unknown")

\* The TokenType the lead bytes at p announce, and the cursor after them.
parse_token_type(t, p, st) ==
    IF at_end(t, p) THEN TErr
    ELSE IF t[p + 1] = "<" THEN
        IF at_end(t, p + 1) THEN TErr
        ELSE IF t[p + 2] = "?" THEN
            IF starts_with(t, p + 1, L_xml_sp) THEN TOk(p + 6, "XMLDecl")
            ELSE TOk(p + 2, "PI")
        ELSE IF t[p + 2] = "!" THEN
            IF at_end(t, p + 2) THEN TErr
            ELSE IF starts_with(t, p + 2, <<"-", "-">>) THEN TOk(p + 4, "Comment")
            ELSE IF starts_with(t, p + 2, L_DOCTYPE) THEN TOk(p + 9, "DoctypeDecl")
            ELSE IF starts_with(t, p + 2, L_ELEMENT) THEN TOk(p + 9, "ElementDecl")
            ELSE IF starts_with(t, p + 2, L_ATTLIST) THEN TOk(p + 9, "AttlistDecl")
            ELSE IF starts_with(t, p + 2, L_ENTITY) THEN TOk(p + 8, "EntityDecl")
            ELSE IF starts_with(t, p + 2, L_NOTATION) THEN TOk(p + 10, "NotationDecl")
            ELSE IF starts_with(t, p + 2, L_CDATA) THEN TOk(p + 9, "CDSect")
            ELSE TOk(p + 2, "Unknown")
        ELSE IF t[p + 2] = "/" THEN TOk(p + 2, "ElementClose")
        ELSE TOk(p + 1, "ElementStart")
    ELSE IF starts_with(t, p, <<"]", ">">>) THEN TOk(p + 2, "DoctypeEnd")
    ELSE IF st \in {"Start", "AfterDtd", "AfterElements", "Dtd"} THEN
        IF starts_with_space(t, p) THEN TOk(p, "Whitespace") ELSE TOk(p, "Unknown")
    ELSE IF st = "Elements" THEN TOk(p, "CharData")
    ELSE TOk(p, "Unknown")

\* gen_err!: the error for a token type the state does not accept, positioned
\* at the offset the call started from.
gen_err(t, p, token_type, start) ==
    IF token_type = "Unknown"
    THEN Out(p, Error(t, "UnknownToken", "Unknown", start, "None"))
    ELSE Out(p, Error(t, "UnexpectedToken", token_type, start, "None"))

\* A parse_next_impl that does not skip the BOM.
skip_bom_never(t, start) == start

\* The cursor after the UTF-8 BOM check at the head of parse_next_impl.
skip_bom(t, start) ==
    IF start = 0 /\ starts_with(t, start, BOM) THEN start + 3 ELSE start

\* A Start state that accepts the XML declaration wherever it meets one.
decl_allowed_anywhere(start) == TRUE

\* "XML declaration allowed only at the start of the document."
decl_allowed(start) == start = 0

\* .map_err(|e| Error::InvalidToken(token_type, gen_text_pos_from(start), Some(e)))
map_err(t, res, token_type, start) ==
    IF res.ok THEN Out(res.pos, res.tok)
    ELSE Out(res.pos, Error(t, "InvalidToken", token_type, start, res.err))

RECURSIVE parse_next_impl(_, _, _)
RECURSIVE match_state(_, _, _, _, _)

\* The match on the state in parse_next_impl, for a call that started at offset
\* start, left the BOM check at p0 and got tk from parse_token_type!.
match_state(t, st, start, p0, tk) ==
    LET token_type == tk.tt
        s  == tk.pos
    IN  IF ~tk.ok THEN Out(p0, Error(t, "UnknownToken", "Unknown", start, "None"))
        ELSE IF st = "Start" THEN
            CASE token_type = "XMLDecl" ->
                    IF decl_allowed(start) THEN parse_declaration(t, s)
                    ELSE gen_err(t, s, token_type, start)
              [] token_type = "Comment" -> parse_comment(t, s)
              [] token_type = "PI" -> parse_pi(t, s)
              [] token_type = "DoctypeDecl" -> parse_doctype(t, s)
              [] token_type = "ElementStart" -> parse_element_start(t, s)
              [] token_type = "Whitespace" -> parse_next_impl(t, skip_spaces(t, s), st)
              [] OTHER -> gen_err(t, s, token_type, start)
        ELSE IF st = "Dtd" THEN
            CASE token_type \in {"ElementDecl", "NotationDecl", "AttlistDecl"} ->
                    IF ~consume_decl(t, s).ok THEN gen_err(t, s, token_type, start)
                    ELSE parse_next_impl(t, consume_decl(t, s).pos, st)
              [] token_type = "EntityDecl" -> parse_entity_decl(t, s)
              [] token_type = "Comment" -> parse_comment(t, s)
              [] token_type = "PI" -> parse_pi(t, s)
              [] token_type = "DoctypeEnd" -> Out(s, Token("DtdEnd", "", <<>>))
              [] token_type = "Whitespace" -> parse_next_impl(t, skip_spaces(t, s), st)
              [] OTHER -> gen_err(t, s, token_type, start)
        ELSE IF st = "AfterDtd" THEN
            CASE token_type = "Comment" -> parse_comment(t, s)
              [] token_type = "PI" -> parse_pi(t, s)
              [] token_type = "ElementStart" -> parse_element_start(t, s)
              [] token_type = "Whitespace" -> parse_next_impl(t, skip_spaces(t, s), st)
              [] OTHER -> gen_err(t, s, token_type, start)
        ELSE IF st = "Elements" THEN
            CASE token_type = "ElementStart" -> parse_element_start(t, s)
              [] token_type = "ElementClose" -> parse_close_element(t, s)
              [] token_type = "CDSect" -> parse_cdata(t, s)
              [] token_type = "PI" -> parse_pi(t, s)
              [] token_type = "Comment" -> parse_comment(t, s)
              [] token_type = "CharData" -> parse_text(t, s)
              [] OTHER -> gen_err(t, s, token_type, start)
        ELSE \* AfterElements
            CASE token_type = "Comment" -> parse_comment(t, s)
              [] token_type = "PI" -> parse_pi(t, s)
              [] token_type = "Whitespace" -> parse_next_impl(t, skip_spaces(t, s), st)
              [] OTHER -> gen_err(t, s, token_type, start)

parse_next_impl(t, p, st) ==
    IF at_end(t, p) THEN Out(p, None)
    ELSE IF st = "Attributes"
    THEN map_err(t, parse_attribute(t, skip_bom(t, p)), "Attribute", p)
    ELSE IF st = "End" THEN Out(skip_bom(t, p), None)
    ELSE match_state(t, st, p, skip_bom(t, p), parse_token_type(t, skip_bom(t, p), st))

-----------------------------------------------------------------------------
(* Iterator::next, as a function of the Tokenizer's fields.                *)

Tokenizer(p, st, d, frag) ==
    [pos |-> p, state |-> st, depth |-> d, fragment_parsing |-> frag]

\* A next() whose ElementEnd::Close decrements the depth without testing it.
depth_after_close_not_saturating(d, r) ==
    IF r.tag = "Token" /\ r.kind = "ElementEnd" THEN
        CASE r.sub = "Open" -> d + 1
          [] r.sub = "Close" -> d - 1
          [] OTHER -> d
    ELSE d

\* A next() that counts an empty element as an open one.
depth_after_empty_increments(d, r) ==
    IF r.tag = "Token" /\ r.kind = "ElementEnd" THEN
        CASE r.sub \in {"Open", "Empty"} -> d + 1
          [] r.sub = "Close" -> IF d > 0 THEN d - 1 ELSE d
          [] OTHER -> d
    ELSE d

\* The depth after next() has seen the result r.
depth_after(d, r) ==
    IF r.tag = "Token" /\ r.kind = "ElementEnd" THEN
        CASE r.sub = "Open" -> d + 1
          [] r.sub = "Close" -> IF d > 0 THEN d - 1 ELSE d
          [] OTHER -> d
    ELSE d

\* A next() that leaves Elements at depth zero even in fragment mode.
state_after_end_ignores_fragment_mode(d, frag) ==
    IF d = 0 THEN "AfterElements" ELSE "Elements"

\* A next() that never enters AfterElements.
state_after_end_never_after_elements(d, frag) == "Elements"

\* The state after an ElementEnd token that left the depth at d.
state_after_end(d, frag) ==
    IF d = 0 /\ ~frag THEN "AfterElements" ELSE "Elements"

\* A next() that forgets to set State::End on an error.
state_after_keeps_state_on_error(st, r, d, frag) ==
    CASE r.tag = "Token" /\ r.kind = "ElementStart" -> "Attributes"
      [] r.tag = "Token" /\ r.kind = "ElementEnd" -> state_after_end(d, frag)
      [] r.tag = "Token" /\ r.kind = "DtdStart" -> "Dtd"
      [] r.tag = "Token" /\ r.kind \in {"EmptyDtd", "DtdEnd"} -> "AfterDtd"
      [] OTHER -> st

\* A next() that stays in the DTD after its closing `]>`.
state_after_dtd_end_stays_in_dtd(st, r, d, frag) ==
    CASE r.tag = "Token" /\ r.kind = "ElementStart" -> "Attributes"
      [] r.tag = "Token" /\ r.kind = "ElementEnd" -> state_after_end(d, frag)
      [] r.tag = "Token" /\ r.kind \in {"DtdStart", "DtdEnd"} -> "Dtd"
      [] r.tag = "Token" /\ r.kind = "EmptyDtd" -> "AfterDtd"
      [] r.tag = "Error" -> "End"
      [] OTHER -> st

\* A next() that moves to End whenever parse_next_impl returns nothing.
state_after_none_sets_end(st, r, d, frag) ==
    CASE r.tag = "Token" /\ r.kind = "ElementStart" -> "Attributes"
      [] r.tag = "Token" /\ r.kind = "ElementEnd" -> state_after_end(d, frag)
      [] r.tag = "Token" /\ r.kind = "DtdStart" -> "Dtd"
      [] r.tag = "Token" /\ r.kind \in {"EmptyDtd", "DtdEnd"} -> "AfterDtd"
      [] r.tag \in {"Error", "None"} -> "End"
      [] OTHER -> st

\* A next() that does not enter Attributes after an ElementStart.
state_after_element_start_keeps_state(st, r, d, frag) ==
    CASE r.tag = "Token" /\ r.kind = "ElementEnd" -> state_after_end(d, frag)
      [] r.tag = "Token" /\ r.kind = "DtdStart" -> "Dtd"
      [] r.tag = "Token" /\ r.kind \in {"EmptyDtd", "DtdEnd"} -> "AfterDtd"
      [] r.tag = "Error" -> "End"
      [] OTHER -> st

\* A next() that returns to the prologue after the DOCTYPE.
state_after_dtd_returns_to_start(st, r, d, frag) ==
    CASE r.tag = "Token" /\ r.kind = "ElementStart" -> "Attributes"
      [] r.tag = "Token" /\ r.kind = "ElementEnd" -> state_after_end(d, frag)
      [] r.tag = "Token" /\ r.kind = "DtdStart" -> "Dtd"
      [] r.tag = "Token" /\ r.kind \in {"EmptyDtd", "DtdEnd"} -> "Start"
      [] r.tag = "Error" -> "End"
      [] OTHER -> st

\* The state after next() has seen the result r (d: the depth after it).
state_after(st, r, d, frag) ==
    CASE r.tag = "Token" /\ r.kind = "ElementStart" -> "Attributes"
      [] r.tag = "Token" /\ r.kind = "ElementEnd" -> state_after_end(d, frag)
      [] r.tag = "Token" /\ r.kind = "DtdStart" -> "Dtd"
      [] r.tag = "Token" /\ r.kind \in {"EmptyDtd", "DtdEnd"} -> "AfterDtd"
      [] r.tag = "Error" -> "End"
      [] OTHER -> st

\* A next() that moves the cursor to the start of the buffer after an error.
cursor_after_error_rewinds(t, o) == IF o.r.tag = "Error" THEN 0 ELSE o.pos

\* The cursor after next() has seen what parse_next_impl returned.
cursor_after(t, o) == IF o.r.tag = "Error" THEN jump_to_end(t) ELSE o.pos

\* next() once parse_next_impl has returned o: the match on the result.
\* [tok |-> the Tokenizer after the call, ret |-> what the call returns]
next_match(t, tz, o) ==
    LET d == depth_after(tz.depth, o.r)
        st == state_after(tz.state, o.r, d, tz.fragment_parsing)
    IN  [tok |-> Tokenizer(cursor_after(t, o), st, d, tz.fragment_parsing), ret |-> o.r]

\* A next() that reports an error when the buffer ends inside a tag, inside
\* the DTD or inside an open element.
next_of_rejects_unfinished_input(t, tz) ==
    IF tz.state = "End" THEN [tok |-> tz, ret |-> None]
    ELSE IF at_end(t, tz.pos) THEN
        [tok |-> [tz EXCEPT !.state = "End"],
         ret |-> IF tz.depth > 0 \/ tz.state \in {"Attributes", "Dtd"}
                 THEN Error(t, "UnknownToken", "Unknown", tz.pos, "None")
                 ELSE None]
    ELSE next_match(t, tz, parse_next_impl(t, tz.pos, tz.state))

next_of(t, tz) ==
    IF at_end(t, tz.pos) \/ tz.state = "End"
    THEN [tok |-> [tz EXCEPT !.state = "End"], ret |-> None]
    ELSE next_match(t, tz, parse_next_impl(t, tz.pos, tz.state))

\* Every Some(..) a fresh sequence of calls of next() returns, in order.
RECURSIVE collect(_, _)
collect(t, tz) ==
    LET n == next_of(t, tz)
    IN  IF n.ret.tag = "None" THEN <<>> ELSE <<n.ret>> \o collect(t, n.tok)

\* Tokenizer::from(text), then enable_fragment_mode() if frag, then collect.
tokenize(t, frag) ==
    collect(t, Tokenizer(0, IF frag THEN "Elements" ELSE "Start", 0, frag))

-----------------------------------------------------------------------------
(* The state machine.                                                      *)

MaxParts == 3

RECURSIVE Flatten(_)
Flatten(ss) == IF ss = <<>> THEN <<>> ELSE Head(ss) \o Flatten(Tail(ss))

\* A prefix followed by at most MaxParts pieces.
Docs(prefix, pieces) ==
    {prefix \o Flatten(ss) : ss \in UNION {[1..n -> pieces] : n \in 0..MaxParts}}

(* The buffers the tokenizer is constructed from: families of documents,   *)
(* each built from the pieces of one part of the grammar.                  *)

\* Element content: open, close and empty tags, text, `]>`.
TagsPrefix == <<>>

TagsPieces ==
    { <<"<", "a", ">">>,   \* <a>
      <<"<", "a", ">", "<", "b", ">">>,   \* <a><b>
      <<"<", "/", "a", ">">>,   \* </a>
      <<"<", "/", "b", ">">>,   \* </b>
      <<"<", "a", "/", ">">>,   \* <a/>
      <<" ">>,   \* a space
      <<"x">>,   \* x
      <<"]", ">">> }   \* ]>

\* Attribute lists.
AttrsPrefix == <<>>

AttrsPieces ==
    { <<"<", "a">>,   \* <a
      <<"<", "a", " ", "b", "=", "\"", "v", "\"">>,   \* <a b="v"
      <<" ", "b", "=", "\"", "v", "\"">>,   \*  b="v"
      <<" ", "c", "=", "'", "<", "'">>,   \*  c='<'
      <<" ", "d", "=", "\"", "<">>,   \*  d="<
      <<"/", ">">>,   \* />
      <<">">>,   \* >
      <<" ", "/">> }   \*  /

\* The XML declaration and what may surround it.
PrologPrefix == <<>>

PrologPieces ==
    { <<"<", "?", "x", "m", "l", " ", "v", "e", "r", "s", "i", "o", "n", "=", "\"", "1", ".", "0", "\"", "?", ">">>,   \* <?xml version="1.0"?>
      <<"EF", "BB", "BF">>,   \* <BOM>
      <<" ">>,   \* a space
      <<"<", "!", "-", "-", "c", "-", "-", ">">>,   \* <!--c-->
      <<"<", "a", "/", ">">>,   \* <a/>
      <<"<", "a", ">">>,   \* <a>
      <<"<", "!", "D", "O", "C", "T", "Y", "P", "E", " ", "a", "[">>,   \* <!DOCTYPE a[
      <<"<", "!", "D", "O", "C", "T", "Y", "P", "E", " ", "a", ">">> }   \* <!DOCTYPE a>

\* Comment bodies, after `<!--`.
CommentBodyPrefix == <<"<", "!", "-", "-">>   \* <!--

CommentBodyPieces ==
    { <<"-">>,   \* -
      <<" ">>,   \* a space
      <<"o", "k">>,   \* ok
      <<"-", "-", ">">>,   \* -->
      <<">">>,   \* >
      <<"\f">> }   \* \f

\* Comments in every state.
CommentsPrefix == <<>>

CommentsPieces ==
    { <<"<", "!", "-", "-", " ", "o", "k", " ", "-", "-", ">">>,   \* <!-- ok -->
      <<"<", "!", "-", "-", "a", "-", "-", "b", "-", "-", ">">>,   \* <!--a--b-->
      <<"<", "!", "-", "-", "a">>,   \* <!--a
      <<"<", "a", ">">>,   \* <a>
      <<"<", "a", "/", ">">>,   \* <a/>
      <<"<", "!", "D", "O", "C", "T", "Y", "P", "E", " ", "a", "[">>,   \* <!DOCTYPE a[
      <<"<", "!", "D", "O", "C", "T", "Y", "P", "E", " ", "a", ">">>,   \* <!DOCTYPE a>
      <<"<", "?", "p", "?", ">">> }   \* <?p?>

\* Constructs that fail after their lead bytes, at varying offsets.
MalformedPrefix == <<>>

MalformedPieces ==
    { <<"\n">>,   \* \n
      <<"<", "!", "D", "O", "C", "T", "Y", "P", "E">>,   \* <!DOCTYPE
      <<"<", "?">>,   \* <?
      <<"<", "!", "-", "-">>,   \* <!--
      <<"<", "?", "x", "m", "l", " ">>,   \* <?xml 
      <<"<">>,   \* <
      <<"<", "/">>,   \* </
      <<"<", "!", "[", "C", "D", "A", "T", "A", "[">>,   \* <![CDATA[
      <<"<", "a", ">">> }   \* <a>

\* The internal subset, after `<!DOCTYPE a [`.
DtdPrefix == <<"<", "!", "D", "O", "C", "T", "Y", "P", "E", " ", "a", " ", "[">>   \* <!DOCTYPE a [

DtdPieces ==
    { <<"<", "!", "E", "L", "E", "M", "E", "N", "T", " ", "b", ">">>,   \* <!ELEMENT b>
      <<"<", "!", "A", "T", "T", "L", "I", "S", "T", " ", "b", " ", "c", " ", "\"", ">", "\"", ">">>,   \* <!ATTLIST b c ">">
      <<"<", "!", "E", "N", "T", "I", "T", "Y", " ", "n", " ", "\"", "v", "\"", ">">>,   \* <!ENTITY n "v">
      <<"<", "!", "E", "N", "T", "I", "T", "Y">>,   \* <!ENTITY
      <<"]", ">">>,   \* ]>
      <<" ">>,   \* a space
      <<"<", "a", "/", ">">>,   \* <a/>
      <<"<", "!", "-", "-", "c", "-", "-", ">">> }   \* <!--c-->

\* An entity declaration outside the DTD.
EntityPrefix == <<>>

EntityPieces ==
    { <<"<", "!", "E", "N", "T", "I", "T", "Y", " ", "n", " ", "\"", "v", "\"", ">">>,   \* <!ENTITY n "v">
      <<"<", "a">>,   \* <a
      <<"<", "a", "/", ">">>,   \* <a/>
      <<" ">> }   \* a space

\* Markup declarations of a DTD, complete and cut short.
DeclPrefix == <<"<", "!", "D", "O", "C", "T", "Y", "P", "E", " ", "a", " ", "[">>

DeclPieces ==
    { <<"<", "!", "E", "L", "E", "M", "E", "N", "T">>,   \* <!ELEMENT
      <<"<", "!", "A", "T", "T", "L", "I", "S", "T">>,   \* <!ATTLIST
      <<"<", "!", "N", "O", "T", "A", "T", "I", "O", "N">>,   \* <!NOTATION
      <<" ", "b">>,   \*  b
      <<">">> }   \* >

\* `<item a="v1" a="v2"/>`
ItemDoc ==
    <<"<", "i", "t", "e", "m", " ", "a", "=", "\"", "v", "1", "\"", " ",
      "a", "=", "\"", "v", "2", "\"", "/", ">">>

\* Documents tokenized as they stand.
Examples == {ItemDoc}

\* The encoding pseudo-attribute of the XML declaration.
EncodingPrefix ==
    <<"<", "?", "x", "m", "l", " ", "v", "e", "r", "s", "i", "o", "n", "=", "\"", "1",
      ".", "0", "\"", " ", "e", "n", "c", "o", "d", "i", "n", "g", "=", "\"">>

EncodingPieces ==
    { <<"a">>, <<"1">>, <<"-">>, <<".">>, <<"_">>, <<"!">>,
      <<"\"", "?", ">">> }   \* "?>

\* Entity declarations with an external ID.
ExternalEntityPrefix ==
    <<"<", "!", "D", "O", "C", "T", "Y", "P", "E", " ", "a", " ", "[",
      "<", "!", "E", "N", "T", "I", "T", "Y", " ">>

ExternalEntityPieces ==
    { <<"%", " ">>,   \* %
      <<"n", " ", "S", "Y", "S", "T", "E", "M", " ", "\"", "s", "\"">>,   \* n SYSTEM "s"
      <<"n", " ", "P", "U", "B", "L", "I", "C", " ", "'", "p", "'", " ", "'", "s", "'">>,   \* n PUBLIC 'p' 's'
      <<" ", "N", "D", "A", "T", "A", " ", "x", ">">>,   \*  NDATA x>
      <<" ", "N", "D", "A", "T", "A", ">">>,   \*  NDATA>
      <<">">> }   \* >

Inputs ==
    Docs(TagsPrefix, TagsPieces) \cup Docs(AttrsPrefix, AttrsPieces)
        \cup Docs(PrologPrefix, PrologPieces) \cup Docs(CommentBodyPrefix, CommentBodyPieces)
        \cup Docs(CommentsPrefix, CommentsPieces) \cup Docs(MalformedPrefix, MalformedPieces)
        \cup Docs(DtdPrefix, DtdPieces) \cup Docs(EntityPrefix, EntityPieces)
        \cup Docs(DeclPrefix, DeclPieces) \cup Examples
        \cup Docs(EncodingPrefix, EncodingPieces)
        \cup Docs(ExternalEntityPrefix, ExternalEntityPieces)

Init ==
    /\ text \in Inputs
    /\ pos = 0
    /\ state = "Start"
    /\ depth = 0
    /\ fragment_parsing = FALSE
    /\ ret = NotCalled
    /\ results = <<>>
    /\ before = Tokenizer(0, "Start", 0, FALSE)
    /\ after = Tokenizer(0, "Start", 0, FALSE)
    /\ late_fragment = FALSE

\* next() has been called.
pulled == ret.tag # "NotCalled"

\* Tokenizer::enable_fragment_mode
enable_fragment_mode ==
    /\ state' = "Elements"
    /\ fragment_parsing' = TRUE
    /\ late_fragment' = (late_fragment \/ pulled)
    /\ UNCHANGED <<text, pos, depth, ret, results, before, after>>

\* Iterator::next
next ==
    \E n \in {next_of(text, Tokenizer(pos, state, depth, fragment_parsing))} :
        /\ pos' = n.tok.pos
        /\ state' = n.tok.state
        /\ depth' = n.tok.depth
        /\ ret' = n.ret
        /\ results' = IF n.ret.tag = "None" THEN results ELSE Append(results, n.ret)
        /\ before' = Tokenizer(pos, state, depth, fragment_parsing)
        /\ after' = n.tok
        /\ UNCHANGED <<text, fragment_parsing, late_fragment>>

Next == enable_fragment_mode \/ next

Spec == Init /\ [][Next]_vars

-----------------------------------------------------------------------------
(* Properties.                                                             *)

IsToken(r, kind) == r.tag = "Token" /\ r.kind = kind

IsError(r) == r.tag = "Error"

\* The kind of every result, with ElementEnd's variant, an error's token type
\* and its cause.
Kinds(rs) == [i \in 1..Len(rs) |-> <<rs[i].tag, rs[i].kind, rs[i].sub, rs[i].cause>>]

\* C1: as soon as a call of next() returns an error, the cursor is at the end
\* of the buffer and the state is End, and every later call returns nothing:
\* the results hold at most one error, and it is their last item.
C1_ErrorIsTerminal ==
    /\ \A i \in 1..Len(results) : IsError(results[i]) => i = Len(results)
    /\ IsError(ret) => /\ after.pos = Len(text) /\ after.state = "End"
                       /\ pos = Len(text)

\* A call after the error has returned nothing.
C1_Witness ==
    /\ Len(results) > 1
    /\ IsError(results[Len(results)])
    /\ ret = None
    /\ before.state = "End"


\* `<a/><a/>`
TwoRoots == <<"<", "a", "/", ">", "<", "a", "/", ">">>

\* C2: with fragment mode off, an ElementEnd token that leaves the depth at
\* zero leaves the state AfterElements, and a call of next() in state
\* AfterElements returns a Comment, a ProcessingInstruction, nothing or an
\* error and leaves the state AfterElements or End; `<a/><a/>` yields
\* ElementStart, ElementEnd::Empty and then UnexpectedToken(ElementStart) at
\* the second `<` (offset 4, 1:5).
C2_SingleRoot ==
    /\ (~fragment_parsing /\ IsToken(ret, "ElementEnd") /\ after.depth = 0)
            => after.state = "AfterElements"
    /\ (~fragment_parsing /\ pulled /\ before.state = "AfterElements")
            => /\ ret = None \/ IsError(ret) \/ IsToken(ret, "Comment")
                    \/ IsToken(ret, "ProcessingInstruction")
               /\ after.state \in {"AfterElements", "End"}
    /\ (text = TwoRoots /\ ~fragment_parsing /\ Len(results) >= 3)
            => /\ Kinds(results) = << <<"Token", "ElementStart", "", "">>,
                                      <<"Token", "ElementEnd", "Empty", "">>,
                                      <<"Error", "UnexpectedToken", "ElementStart", "None">> >>
               /\ results[3].off = 4 /\ results[3].row = 1 /\ results[3].col = 5

\* The second root element of `<a/><a/>` has been refused.
C2_Witness ==
    /\ text = TwoRoots
    /\ ~fragment_parsing
    /\ Len(results) = 3
    /\ before.state = "AfterElements"
    /\ IsError(ret)

\* C3: when enable_fragment_mode is called before the first call of next(),
\* the tokenizer starts in state Elements, the state after every ElementEnd
\* token is Elements whatever the depth, the state AfterElements is never
\* reached, and a buffer of sibling `<a/>` elements is tokenized without error.
C3_FragmentMode ==
    (fragment_parsing /\ ~late_fragment) =>
        /\ ~pulled => state = "Elements"
        /\ before.state # "AfterElements" /\ after.state # "AfterElements"
        /\ state # "AfterElements"
        /\ IsToken(ret, "ElementEnd") => after.state = "Elements"
        /\ text \in Docs(<<>>, {<<"<", "a", "/", ">">>})
                => \A i \in 1..Len(results) : ~IsError(results[i])

\* Three sibling root elements have been tokenized in fragment mode.
C3_Witness ==
    /\ fragment_parsing /\ ~late_fragment
    /\ text = TwoRoots \o <<"<", "a", "/", ">">>
    /\ Len(results) = 6
    /\ IsToken(ret, "ElementEnd") /\ ret.sub = "Empty"
    /\ depth = 0 /\ state = "Elements"


\* `<a><b></a></b>`
Crossed == <<"<", "a", ">", "<", "b", ">", "<", "/", "a", ">", "<", "/", "b", ">">>

\* t with the name a of every closing tag `</a` replaced by b, and b by a.
SwapCloseNames(t) ==
    [i \in 1..Len(t) |->
        IF i > 2 /\ t[i - 2] = "<" /\ t[i - 1] = "/"
        THEN (IF t[i] = "a" THEN "b" ELSE IF t[i] = "b" THEN "a" ELSE t[i])
        ELSE t[i]]

\* C4: the name of a closing tag is not compared with the name of an open
\* element: exchanging the names of the closing tags of a buffer changes
\* neither the kinds of its results nor where an error occurs, and
\* `<a><b></a></b>` is tokenized to its end without error, yielding
\* ElementEnd::Close(a) before ElementEnd::Close(b).
C4_NoTagMatching ==
    /\ ~pulled =>
        \A frag \in BOOLEAN :
            Kinds(tokenize(SwapCloseNames(text), frag)) = Kinds(tokenize(text, frag))
    /\ (text = Crossed /\ ~fragment_parsing) =>
        /\ \A i \in 1..Len(results) : ~IsError(results[i])
        /\ Len(results) >= 5 =>
            /\ IsToken(results[5], "ElementEnd") /\ results[5].sub = "Close"
            /\ to_str(text, results[5].spans[2]) = <<"a">>
        /\ Len(results) >= 6 =>
            /\ IsToken(results[6], "ElementEnd") /\ results[6].sub = "Close"
            /\ to_str(text, results[6].spans[2]) = <<"b">>
        /\ (pulled /\ ret = None) => Len(results) = 6

\* `<a><b></a></b>` has been tokenized to its end.
C4_Witness ==
    /\ text = Crossed
    /\ ~fragment_parsing
    /\ Len(results) = 6
    /\ ret = None
    /\ state = "End"


\* The token types of the constructs that begin with `<` and have a recognizer.
LtConstructs ==
    {"XMLDecl", "PI", "Comment", "DoctypeDecl", "EntityDecl", "CDSect",
     "ElementStart", "ElementClose"}

\* The offset of the construct a call of next() at cursor p in state st
\* classifies: past a BOM at offset 0, past white space where the state skips
\* it, and past the complete ELEMENT, ATTLIST and NOTATION declarations of a
\* DTD.
RECURSIVE TokenStart(_, _, _)
TokenStart(t, p, st) ==
    LET p0 == IF p = 0 /\ starts_with(t, 0, BOM) THEN 3 ELSE p
        tk == parse_token_type(t, p0, st)
    IN  IF st \in {"Start", "Dtd", "AfterDtd", "AfterElements"}
                /\ starts_with_space(t, p0)
        THEN TokenStart(t, skip_spaces(t, p0), st)
        ELSE IF st = "Dtd" /\ tk.ok
                /\ tk.tt \in {"ElementDecl", "AttlistDecl", "NotationDecl"}
                /\ consume_decl(t, tk.pos).ok
        THEN TokenStart(t, consume_decl(t, tk.pos).pos, st)
        ELSE p0

\* C5: when the recognizer of a construct that begins with `<` fails, the
\* InvalidToken error carries the position of the construct's opening `<`:
\* its offset is the offset of the construct the call classified, the byte
\* there is `<`, the lead bytes there announce the error's token type, and
\* the row and column are those of that offset.
C5_ErrorAtOpeningLt ==
    (IsError(ret) /\ ret.kind = "InvalidToken" /\ ret.sub \in LtConstructs) =>
        LET n == TokenStart(text, before.pos, before.state)
        IN  /\ ret.off = n
            /\ n < Len(text) /\ text[n + 1] = "<"
            /\ parse_token_type(text, n, before.state).tt = ret.sub
            /\ ret.row = gen_text_pos_from(text, n).row
            /\ ret.col = gen_text_pos_from(text, n).col

\* A malformed DOCTYPE on the second line has been refused at 2:1.
C5_Witness ==
    /\ IsError(ret) /\ ret.kind = "InvalidToken" /\ ret.sub = "DoctypeDecl"
    /\ before.pos = 0
    /\ ret.off = 1 /\ ret.row = 2 /\ ret.col = 1
    /\ Len(text) > 10


\* C6: when a call of next() in state Attributes fails, the position of the
\* InvalidToken(Attribute) error is the start of the failed attribute token,
\* the first byte after the white space that precedes it, for the first
\* attribute of an element as for the later ones.
C6_AttributeErrorAtAttributeStart ==
    (IsError(ret) /\ ret.kind = "InvalidToken" /\ ret.sub = "Attribute") =>
        LET n == skip_ascii_spaces(text, before.pos)
        IN  /\ ret.off = n
            /\ ret.row = gen_text_pos_from(text, n).row
            /\ ret.col = gen_text_pos_from(text, n).col

\* The first attribute of an element has failed, and the error is positioned
\* at the space between the element's name and the attribute's name.
C6_Witness ==
    /\ IsError(ret) /\ ret.kind = "InvalidToken" /\ ret.sub = "Attribute"
    /\ before.state = "Attributes"
    /\ ret.off = before.pos
    /\ text[ret.off + 1] = " "
    /\ skip_ascii_spaces(text, before.pos) = before.pos + 1
    /\ before.pos + 2 <= Len(text)
    /\ is_xml_name_start(text[before.pos + 2])
    /\ ret.cause = "InvalidAttributeValue"


\* The offset after the opening quote of the attribute a call of next() at
\* cursor p in state Attributes reads: white space, a qualified name, `=` and
\* a quote; -1 when the bytes at p are not of this form.
ValueStart(t, p) ==
    LET p1 == skip_ascii_spaces(t, p)
        n  == consume_qname(t, p1)
        eq == consume_eq(t, n.pos)
        quote == consume_quote(t, eq.pos)
    IN  IF at_end(t, p1) \/ t[p1 + 1] \in {"/", ">"} THEN -1
        ELSE IF ~n.ok THEN -1
        ELSE IF ~eq.ok THEN -1
        ELSE IF ~quote.ok THEN -1
        ELSE quote.pos

\* The offset of the first byte c at or after p, the length of t if none.
NextByte(t, p, c) ==
    IF \E q \in p..(Len(t) - 1) : t[q + 1] = c
    THEN CHOOSE q \in p..(Len(t) - 1) :
            /\ t[q + 1] = c
            /\ \A r \in p..(q - 1) : t[r + 1] # c
    ELSE Len(t)

\* C9: whenever the bytes between an attribute's opening quote and the next
\* occurrence of the same quote, or the end of the buffer, contain `<`, the
\* call of next() returns an InvalidToken(Attribute) error whose cause is
\* InvalidAttributeValue, not an Attribute token; no other call returns this
\* cause.
C9_LtInAttributeValue ==
    (pulled /\ before.state = "Attributes" /\ before.pos < Len(text)) =>
        LET v == ValueStart(text, before.pos)
            e == IF v < 0 THEN -1 ELSE NextByte(text, v, text[v])
            lt == v >= 0 /\ \E q \in v..(e - 1) : text[q + 1] = "<"
        IN  /\ lt => /\ IsError(ret) /\ ret.kind = "InvalidToken"
                      /\ ret.sub = "Attribute"
                      /\ ret.cause = "InvalidAttributeValue"
                      /\ results[Len(results)] = ret
                      /\ \A i \in 1..Len(results) :
                            IsToken(results[i], "Attribute")
                                => results[i].spans[3][1] # v
            /\ (IsError(ret) /\ ret.cause = "InvalidAttributeValue") => lt

\* An attribute value that holds `<` and has no closing quote has been refused.
C9_Witness ==
    /\ before.state = "Attributes"
    /\ IsError(ret) /\ ret.cause = "InvalidAttributeValue"
    /\ ValueStart(text, before.pos) >= 0
    /\ NextByte(text, ValueStart(text, before.pos),
                 text[ValueStart(text, before.pos)]) = Len(text)
    /\ Len(results) >= 3


CommentStates == {"Start", "Dtd", "AfterDtd", "Elements", "AfterElements"}

\* The offsets at or after p where `-->` begins.
Terminators(t, p) == {q \in p..(Len(t) - 3) : starts_with(t, q, <<"-", "-", ">">>)}

\* What a call of next() that classifies a comment at offset n must return
\* (chars: whether a body that holds a byte that is not an XML Char is
\* refused): an InvalidToken(Comment) error when no `-->` follows `<!--` or
\* when the body, the bytes between `<!--` and the first `-->`, holds `--`,
\* and otherwise a Comment token whose span is exactly the body.
CommentRule(n, chars) ==
    LET b == n + 4
        ends == Terminators(text, b)
        e == IF ends = {} THEN Len(text) ELSE Min(ends)
        body == <<b, e>>
        refused == \/ ends = {}
                   \/ contains2(text, body, "-", "-")
                   \/ chars /\ \E q \in b..(e - 1) : ~is_xml_char(text[q + 1])
    IN  IF refused
        THEN /\ IsError(ret) /\ ret.kind = "InvalidToken"
             /\ ret.sub = "Comment" /\ ret.cause = "None"
        ELSE /\ IsToken(ret, "Comment")
             /\ ret.spans = <<body>>
             /\ after.pos = e + 3

\* A call of next() in a state that accepts comments has classified a comment.
CommentPulled ==
    /\ pulled /\ before.state \in CommentStates /\ before.pos < Len(text)
    /\ starts_with(text, TokenStart(text, before.pos, before.state),
                   <<"<", "!", "-", "-">>)

\* C8 as stated: in every state that accepts comments, a comment whose body
\* holds `--` or that has no terminating `-->` yields InvalidToken(Comment),
\* and every other comment yields a Comment token whose span is the bytes
\* between `<!--` and the first `-->`.
C8_CommentRule_AsStated ==
    CommentPulled => CommentRule(TokenStart(text, before.pos, before.state), FALSE)

\* C8, amended: in every state that accepts comments, a comment whose body
\* holds `--` or a byte that is not an XML Char, or that has no terminating
\* `-->`, yields InvalidToken(Comment), and every other comment yields a
\* Comment token whose span is the bytes between `<!--` and the first `-->`,
\* white space included (` ok ` for `<!-- ok -->`); a Comment token or an
\* InvalidToken(Comment) error is returned for a comment only.
C8_CommentRule ==
    /\ CommentPulled => CommentRule(TokenStart(text, before.pos, before.state), TRUE)
    /\ (IsToken(ret, "Comment") \/ (IsError(ret) /\ ret.sub = "Comment"))
            => CommentPulled
    /\ (CommentPulled /\ IsToken(ret, "Comment")
            /\ starts_with(text, TokenStart(text, before.pos, before.state),
                           <<"<", "!", "-", "-", " ", "o", "k", " ", "-", "-", ">">>))
            => to_str(text, ret.spans[1]) = <<" ", "o", "k", " ">>

\* `<!-- ok -->` has yielded a Comment token in the internal subset of a DTD.
C8_Witness ==
    /\ CommentPulled /\ before.state = "Dtd"
    /\ IsToken(ret, "Comment")
    /\ to_str(text, ret.spans[1]) = <<" ", "o", "k", " ">>


\* The span sp moved k bytes to the right; an absent span stays absent.
ShiftSpan(sp, k) == IF sp = NoSpan THEN sp ELSE <<sp[1] + k, sp[2] + k>>

\* The spans of every result of rs, moved k bytes to the right.
ShiftedSpans(rs, k) ==
    [i \in 1..Len(rs) |->
        [j \in 1..Len(rs[i].spans) |-> ShiftSpan(rs[i].spans[j], k)]]

Spans(rs) == [i \in 1..Len(rs) |-> rs[i].spans]

\* The results of BOM \o t are those of t: the same tokens and errors in the
\* same order, every span moved by the three bytes of the BOM.
SameModuloBOM(t, frag) ==
    LET with == tokenize(BOM \o t, frag)
        without == tokenize(t, frag)
    IN  /\ Kinds(with) = Kinds(without)
        /\ Spans(with) = ShiftedSpans(without, 3)

\* C7 as stated: for every buffer X, tokenizing the BOM followed by X yields
\* the results of tokenizing X, with every span shifted by three bytes.
C7_BOM_AsStated ==
    ~pulled => \A frag \in BOOLEAN : SameModuloBOM(text, frag)

\* C7, amended: for every buffer X that is not empty and does not itself
\* begin with a BOM, tokenizing the BOM followed by X yields the results of
\* tokenizing X, with every span shifted by three bytes, and an error of the
\* one is at the offset of the other plus three, unless it is the first
\* result and is an UnknownToken or UnexpectedToken error positioned at
\* offset 0 in both; the BOM is skipped at offset 0 only: the BOM followed by
\* the empty buffer yields one UnknownToken error where the empty buffer
\* yields nothing, and a second BOM is an UnknownToken error, or the start of
\* a Text token in fragment mode.
C7_BOM ==
    ~pulled => \A frag \in BOOLEAN :
        LET with == tokenize(BOM \o text, frag)
            without == tokenize(text, frag)
        IN  IF text = <<>>
            THEN /\ without = <<>>
                 /\ Kinds(with) = << <<"Error", "UnknownToken", "Unknown", "None">> >>
                 /\ with[1].off = 0
            ELSE IF starts_with(text, 0, BOM)
            THEN IF frag
                 THEN /\ IsToken(with[1], "Text") /\ with[1].spans[1][1] = 3
                 ELSE /\ Kinds(with) = << <<"Error", "UnknownToken", "Unknown", "None">> >>
                      /\ with[1].off = 0
            ELSE /\ SameModuloBOM(text, frag)
                 /\ \A i \in 1..Len(with) : IsError(with[i]) =>
                        \/ with[i].off = without[i].off + 3
                        \/ /\ i = 1 /\ with[i].off = 0 /\ without[i].off = 0
                           /\ with[i].kind \in {"UnknownToken", "UnexpectedToken"}

\* A document with a BOM, an XML declaration and a root element has been
\* tokenized to its end, and without the BOM it yields the same results.
C7_Witness ==
    /\ starts_with(text, 0, BOM \o <<"<", "?", "x", "m", "l", " ">>)
    /\ ~late_fragment /\ ~fragment_parsing
    /\ Len(results) = 3
    /\ IsToken(results[1], "Declaration") /\ results[1].spans[1][1] > 3
    /\ IsToken(results[3], "ElementEnd")
    /\ SameModuloBOM(SubSeq(text, 4, Len(text)), FALSE)
    /\ tokenize(text, FALSE) = results


\* `<!ENTITY`
EntityLead == <<"<", "!">> \o L_ENTITY

\* C11: in the results every EntityDeclaration token and every DtdEnd token
\* comes after a DtdStart token, and no DtdEnd token comes before an
\* EntityDeclaration token; a call of next() that meets `<!ENTITY` in a state
\* other than Dtd returns an error, never a token.
C11_EntityOnlyInDtd ==
    /\ \A i \in 1..Len(results) :
        /\ (IsToken(results[i], "EntityDeclaration") \/ IsToken(results[i], "DtdEnd"))
                => \E j \in 1..(i - 1) : IsToken(results[j], "DtdStart")
        /\ IsToken(results[i], "EntityDeclaration")
                => \A j \in 1..(i - 1) : ~IsToken(results[j], "DtdEnd")
    /\ IsToken(ret, "EntityDeclaration") => before.state = "Dtd"
    /\ (pulled /\ before.state # "Dtd"
            /\ starts_with(text, TokenStart(text, before.pos, before.state), EntityLead))
            => IsError(ret)

\* An entity declaration of a DTD has been yielded and the DTD closed, and
\* the `<!ENTITY` that follows the DTD has been refused.
C11_Witness ==
    /\ Len(results) = 4
    /\ IsToken(results[1], "DtdStart")
    /\ IsToken(results[2], "EntityDeclaration")
    /\ IsToken(results[3], "DtdEnd")
    /\ before.state = "AfterDtd"
    /\ starts_with(text, TokenStart(text, before.pos, before.state), EntityLead)
    /\ IsError(ret) /\ ret.kind = "UnexpectedToken" /\ ret.sub = "EntityDecl"


\* The end of the character data that starts at p: the next `<` or the end
\* of the buffer.
RunEnd(t, p) == ScanTo(t, p, {q \in p..(Len(t) - 1) : t[q + 1] = "<"})

\* C12: a call of next() in state Elements whose cursor (past a BOM at offset
\* 0) is at a byte other than `<` returns one Text or Whitespaces token whose
\* span runs from the cursor to the next `<` or the end of the buffer,
\* whatever the first bytes of the run are.
C12_RunIsOneTextToken ==
    (pulled /\ before.state = "Elements"
        /\ ~at_end(text, skip_bom(text, before.pos))
        /\ text[skip_bom(text, before.pos) + 1] # "<") =>
            /\ IsToken(ret, "Text") \/ IsToken(ret, "Whitespaces")
            /\ ret.spans = <<<<skip_bom(text, before.pos),
                               RunEnd(text, skip_bom(text, before.pos))>>>>
            /\ after.pos = RunEnd(text, skip_bom(text, before.pos))

\* Inside an open element, character data that begins with `]>` has been
\* refused as a DoctypeEnd.
C12_Witness ==
    /\ before.state = "Elements" /\ before.depth = 1 /\ ~fragment_parsing
    /\ starts_with(text, before.pos, <<"]", ">">>)
    /\ IsError(ret) /\ ret.kind = "UnexpectedToken" /\ ret.sub = "DoctypeEnd"
    /\ ret.off = before.pos


\* A well-formed closing tag is at offset n of t.
ClosingTagAt(t, n) ==
    /\ starts_with(t, n, <<"<", "/">>)
    /\ parse_close_element_impl(t, n + 2).ok

\* The depth after every call of next(): one more after ElementEnd::Open, the
\* same after ElementEnd::Empty, one less but never below zero after
\* ElementEnd::Close, the same after every other result; never negative.
DepthArithmetic ==
    /\ depth >= 0 /\ before.depth >= 0 /\ after.depth >= 0
    /\ pulled =>
        /\ (IsToken(ret, "ElementEnd") /\ ret.sub = "Open")
                => after.depth = before.depth + 1
        /\ (IsToken(ret, "ElementEnd") /\ ret.sub = "Empty")
                => after.depth = before.depth
        /\ (IsToken(ret, "ElementEnd") /\ ret.sub = "Close")
                => after.depth = (IF before.depth > 0 THEN before.depth - 1 ELSE 0)
        /\ ~IsToken(ret, "ElementEnd") => after.depth = before.depth

\* A call of next() has met a well-formed closing tag while the depth was
\* zero, in a state that classifies tokens.
CloseAtDepthZero ==
    /\ pulled /\ before.depth = 0
    /\ before.state \in {"Start", "Dtd", "AfterDtd", "Elements", "AfterElements"}
    /\ ClosingTagAt(text, TokenStart(text, before.pos, before.state))

\* C13 as stated: the depth arithmetic, and a closing tag met while the depth
\* is zero is yielded as ElementEnd::Close, without error, and leaves the
\* depth at zero.
C13_Depth_AsStated ==
    /\ DepthArithmetic
    /\ CloseAtDepthZero =>
        /\ IsToken(ret, "ElementEnd") /\ ret.sub = "Close"
        /\ after.depth = 0

\* C13: the depth arithmetic holds across every sequence of calls; a closing
\* tag met in state Elements while the depth is zero, which requires fragment
\* mode, is yielded as ElementEnd::Close and leaves the depth at zero, and a
\* closing tag met while the depth is zero in Start, Dtd, AfterDtd or
\* AfterElements is the error UnexpectedToken(ElementClose).
C13_Depth ==
    /\ DepthArithmetic
    /\ (state = "Elements" /\ depth = 0) => fragment_parsing
    /\ (CloseAtDepthZero /\ before.state = "Elements") =>
        /\ IsToken(ret, "ElementEnd") /\ ret.sub = "Close"
        /\ after.depth = 0
        /\ before.fragment_parsing
    /\ (CloseAtDepthZero /\ before.state # "Elements") =>
        /\ IsError(ret) /\ ret.kind = "UnexpectedToken" /\ ret.sub = "ElementClose"
        /\ after.depth = 0

\* In fragment mode a closing tag that closes nothing has been yielded and
\* the depth is still zero.
C13_Witness ==
    /\ CloseAtDepthZero /\ before.state = "Elements"
    /\ IsToken(ret, "ElementEnd") /\ ret.sub = "Close"
    /\ depth = 0
    /\ Len(results) > 1


\* The token types the match on state st in parse_next_impl hands to a
\* recognizer or skips; the XML declaration only for a call of next() that
\* starts at offset 0 and skips nothing but a BOM.
Accepts(t, tz) ==
    CASE tz.state = "Start" ->
            {"Comment", "PI", "DoctypeDecl", "ElementStart", "Whitespace"}
                \cup (IF tz.pos = 0 /\ starts_with(t, skip_bom(t, 0), <<"<">> \o L_xml_sp)
                      THEN {"XMLDecl"} ELSE {})
      [] tz.state = "Dtd" ->
            {"ElementDecl", "NotationDecl", "AttlistDecl", "EntityDecl", "Comment",
             "PI", "DoctypeEnd", "Whitespace"}
      [] tz.state = "AfterDtd" -> {"Comment", "PI", "ElementStart", "Whitespace"}
      [] tz.state = "Elements" ->
            {"ElementStart", "ElementClose", "CDSect", "PI", "Comment", "CharData"}
      [] tz.state = "AfterElements" -> {"Comment", "PI", "Whitespace"}
      [] OTHER -> {}

\* What parse_token_type says of the construct the latest call of next()
\* stopped at.
Classified == parse_token_type(text, TokenStart(text, before.pos, before.state),
                               before.state)

\* C14: an UnexpectedToken(T) error is returned only for a token type T the
\* state does not accept; when the state accepts the token type the call
\* classified and the call fails, the error is InvalidToken(T), also for the
\* ELEMENT, ATTLIST and NOTATION declarations of state Dtd; an UnknownToken
\* error is returned only when the lead bytes announce no token type.
C14_ErrorKinds ==
    (IsError(ret) /\ before.state # "Attributes") =>
        /\ ret.kind = "UnexpectedToken" =>
            /\ Classified.ok /\ ret.sub = Classified.tt
            /\ ret.sub \notin Accepts(text, before)
        /\ (Classified.ok /\ Classified.tt \in Accepts(text, before)) =>
            /\ ret.kind = "InvalidToken" /\ ret.sub = Classified.tt
        /\ ret.kind = "UnknownToken" =>
            ~Classified.ok \/ Classified.tt = "Unknown"

\* An ELEMENT declaration of a DTD that has no closing `>` has been refused
\* as an unexpected token.
C14_Witness ==
    /\ before.state = "Dtd"
    /\ Classified.ok /\ Classified.tt = "ElementDecl"
    /\ IsError(ret) /\ ret.kind = "UnexpectedToken" /\ ret.sub = "ElementDecl"


\* The states whose match skips white space and calls parse_next_impl again.
SkippingStates == {"Start", "Dtd", "AfterDtd", "AfterElements"}

\* Every step of parse_next_impl that skips and classifies again has moved the
\* cursor: white space classified at p ends after p, and a declaration
\* skipped from s ends after s.
SkipsConsume(t) ==
    \A p \in 0..Len(t), st \in SkippingStates :
        \E tk \in {parse_token_type(t, p, st)} :
            /\ (tk.ok /\ tk.tt = "Whitespace") => skip_spaces(t, tk.pos) > p
            /\ (tk.ok /\ st = "Dtd" /\ consume_decl(t, tk.pos).ok
                    /\ tk.tt \in {"ElementDecl", "NotationDecl", "AttlistDecl"})
                    => consume_decl(t, tk.pos).pos > tk.pos /\ tk.pos > p

\* C15: a call of next() that returns a token or an error leaves the cursor
\* strictly after where the call found it, a call that returns nothing leaves
\* it at the end of the buffer, the cursor never passes the end, the results
\* are never more than the bytes of the buffer plus one, and each skip inside
\* a call consumes at least one byte before the call classifies again.
C15_Progress ==
    /\ pos \in 0..Len(text)
    /\ (pulled /\ ret # None) => after.pos > before.pos
    /\ (pulled /\ ret = None) => after.pos = Len(text) /\ after.pos >= before.pos
    /\ Len(results) <= pos
    /\ Len(results) <= Len(text) + 1
    /\ ~pulled => SkipsConsume(text)

\* A call has skipped a declaration of the DTD and the white space after it,
\* returned the token that follows, and a later call has reached the end.
C15_Witness ==
    /\ Len(results) = 3
    /\ IsToken(results[1], "DtdStart")
    /\ IsToken(results[2], "EntityDeclaration")
    /\ IsToken(results[3], "DtdEnd")
    /\ starts_with(text, Len(DtdPrefix), <<"<", "!">> \o L_ELEMENT)
    /\ ret = None
    /\ pos = Len(text)


\* The byte at index i of t is a one-letter attribute name: a letter between
\* a space and `=`.
AttrNameAt(t, i) ==
    /\ 1 < i /\ i < Len(t)
    /\ t[i - 1] = " " /\ t[i] \in Letters /\ t[i + 1] = "="

\* Names no two of which are equal.
FreshNames == <<"p", "q", "r", "s", "u", "w">>

\* t with its one-letter attribute names replaced by names that differ from
\* each other.
DistinctAttrNames(t) ==
    [i \in 1..Len(t) |->
        IF AttrNameAt(t, i)
        THEN FreshNames[1 + Cardinality({j \in 1..(i - 1) : AttrNameAt(t, j)})]
        ELSE t[i]]

\* The attribute tokens among rs that carry the name `name` in t.
Named(t, rs, name) ==
    {i \in 1..Len(rs) : IsToken(rs[i], "Attribute") /\ to_str(t, rs[i].spans[2]) = name}

\* C16: an attribute name that repeats an earlier name of the same element is
\* not an error: giving every attribute of a buffer a name of its own changes
\* none of its results, and `<item a="v1" a="v2"/>` yields ElementStart(item),
\* Attribute(a, v1), Attribute(a, v2) and ElementEnd::Empty.
C16_DuplicateAttributes ==
    /\ ~pulled =>
        \A frag \in BOOLEAN :
            tokenize(DistinctAttrNames(text), frag) = tokenize(text, frag)
    /\ (text = ItemDoc /\ ~fragment_parsing) =>
        /\ \A i \in 1..Len(results) : ~IsError(results[i])
        /\ Len(results) <= 4
        /\ Len(results) >= 1 =>
            /\ IsToken(results[1], "ElementStart")
            /\ to_str(text, results[1].spans[2]) = <<"i", "t", "e", "m">>
        /\ \A i \in {2, 3} : Len(results) >= i =>
            /\ IsToken(results[i], "Attribute")
            /\ to_str(text, results[i].spans[2]) = <<"a">>
            /\ to_str(text, results[i].spans[3]) = <<"v", (IF i = 2 THEN "1" ELSE "2")>>
        /\ Len(results) >= 4 =>
            /\ IsToken(results[4], "ElementEnd") /\ results[4].sub = "Empty"
        /\ (pulled /\ ret = None) => Len(results) = 4

\* The four tokens of `<item a="v1" a="v2"/>` have been yielded, two of them
\* attributes named a.
C16_Witness ==
    /\ text = ItemDoc /\ ~fragment_parsing
    /\ Len(results) = 4
    /\ Named(text, results, <<"a">>) = {2, 3}
    /\ IsToken(ret, "ElementEnd") /\ ret.sub = "Empty"


States == {"Start", "Dtd", "AfterDtd", "Elements", "Attributes", "AfterElements", "End"}

\* Once a call of next() has returned nothing the cursor is at the end of the
\* buffer, and the next call returns nothing and leaves the state End,
\* whatever the state is, also after enable_fragment_mode.
NothingAfterNothing ==
    (pulled /\ ret = None) =>
        /\ pos = Len(text) /\ after.pos = Len(text)
        /\ \A st \in States, frag \in BOOLEAN :
            \E n \in {next_of(text, Tokenizer(pos, st, depth, frag))} :
                n.ret = None /\ n.tok.state = "End" /\ n.tok.pos = pos

\* C17 as stated: after every call of next() that returns nothing the state
\* is End, and every later call returns nothing.
C17_EndAfterNothing_AsStated ==
    /\ NothingAfterNothing
    /\ (pulled /\ ret = None) => after.state = "End"

\* C17: after a call of next() that returns nothing the cursor is at the end
\* of the buffer and every later call returns nothing; the state is End after
\* a call that found the buffer exhausted or the state End, while a call that
\* exhausts the buffer itself, skipping trailing white space or a declaration
\* of the DTD, leaves the state as it was (Start, Dtd, AfterDtd or
\* AfterElements), and the call after it sets End.
C17_EndAfterNothing ==
    /\ NothingAfterNothing
    /\ (pulled /\ ret = None /\ (at_end(text, before.pos) \/ before.state = "End"))
            => after.state = "End"
    /\ (pulled /\ ret = None /\ ~at_end(text, before.pos) /\ before.state # "End")
            => /\ after.state = before.state
               /\ before.state \in SkippingStates
               /\ TokenStart(text, before.pos, before.state) = Len(text)

\* A call has skipped the white space after the root element, returned
\* nothing and left the state AfterElements.
C17_Witness ==
    /\ pulled /\ ret = None
    /\ ~at_end(text, before.pos)
    /\ starts_with_space(text, before.pos)
    /\ before.state = "AfterElements" /\ state = "AfterElements"
    /\ pos = Len(text)


\* r is an ElementEnd::Open or an ElementEnd::Empty token.
IsTagEnd(r) == IsToken(r, "ElementEnd") /\ r.sub \in {"Open", "Empty"}

\* r is an ElementStart or an Attribute token.
InTag(r) == IsToken(r, "ElementStart") \/ IsToken(r, "Attribute")

\* C18: when enable_fragment_mode is not called after the first call of
\* next(), the result after an ElementStart or an Attribute token is an
\* Attribute token, ElementEnd::Open, ElementEnd::Empty or an error; an
\* Attribute, ElementEnd::Open or ElementEnd::Empty token comes only directly
\* after an ElementStart or an Attribute token; and the state is Attributes
\* exactly after an ElementStart or an Attribute token.
C18_AttributesFollowElementStart ==
    ~late_fragment =>
        /\ \A i \in 1..Len(results) :
            /\ (InTag(results[i]) /\ i < Len(results))
                    => \/ IsToken(results[i + 1], "Attribute")
                       \/ IsTagEnd(results[i + 1])
                       \/ IsError(results[i + 1])
            /\ (IsToken(results[i], "Attribute") \/ IsTagEnd(results[i]))
                    => i > 1 /\ InTag(results[i - 1])
        /\ pulled =>
            ((after.state = "Attributes") <=> InTag(ret))
        /\ (pulled /\ before.state = "Attributes") =>
            ret = None \/ IsError(ret) \/ IsToken(ret, "Attribute") \/ IsTagEnd(ret)

\* An element's start, two attributes and its ElementEnd::Open have been
\* yielded in this order.
C18_Witness ==
    /\ ~late_fragment
    /\ Len(results) = 4
    /\ IsToken(results[1], "ElementStart")
    /\ IsToken(results[2], "Attribute")
    /\ IsToken(results[3], "Attribute")
    /\ IsTagEnd(results[4]) /\ results[4].sub = "Open"


\* Every byte of the span sp of t is XML white space.
AllSpace(t, sp) == \A i \in (sp[1] + 1)..sp[2] : is_xml_space(t[i])

RECURSIVE UnquotedGt(_, _, _)
UnquotedGt(t, q, quote) ==
    IF q >= Len(t) THEN Len(t)
    ELSE IF quote = "" THEN
        IF t[q + 1] = ">" THEN q
        ELSE IF t[q + 1] \in {"\"", "'"} THEN UnquotedGt(t, q + 1, t[q + 1])
        ELSE UnquotedGt(t, q + 1, "")
    ELSE IF t[q + 1] = quote THEN UnquotedGt(t, q + 1, "")
    ELSE UnquotedGt(t, q + 1, quote)

\* What parse_token_type says at the first byte that is not white space of a
\* call of next() in state Dtd.
DtdClassified == parse_token_type(text, skip_spaces(text, before.pos), "Dtd")

\* The latest call of next() was made in state Dtd and met an ELEMENT, ATTLIST
\* or NOTATION declaration: the keyword, white space, and a `>` outside
\* quoted literals.
SkippedDeclMet ==
    /\ pulled /\ before.state = "Dtd"
    /\ DtdClassified.ok
    /\ DtdClassified.tt \in {"ElementDecl", "AttlistDecl", "NotationDecl"}
    /\ starts_with_space(text, DtdClassified.pos)
    /\ UnquotedGt(text, DtdClassified.pos, "") < Len(text)

\* C20: a call of next() in state Dtd that meets an ELEMENT, ATTLIST or
\* NOTATION declaration returns no token for it: it returns what a call
\* returns that starts after the first `>` of the declaration that is outside
\* quoted literals, and leaves the cursor where that call leaves it.
C20_DeclSkippedToUnquotedGt ==
    SkippedDeclMet =>
        \E o \in {parse_next_impl(text, UnquotedGt(text, DtdClassified.pos, "") + 1, "Dtd")} :
            /\ ret = o.r
            /\ after.pos = cursor_after(text, o)

\* A call in state Dtd has met an ATTLIST declaration with `>` inside a quoted
\* literal, ended the declaration at that `>` and refused the rest of the
\* literal as an unknown token.
C20_Witness ==
    /\ SkippedDeclMet
    /\ DtdClassified.tt = "AttlistDecl"
    /\ consume_decl(text, DtdClassified.pos).pos
            < UnquotedGt(text, DtdClassified.pos, "") + 1
    /\ IsError(ret) /\ ret.kind = "UnknownToken"
    /\ ret.off = consume_decl(text, DtdClassified.pos).pos
    /\ text[ret.off + 1] = "\""


\* EncName ::= [A-Za-z] ([A-Za-z0-9._] | '-')*
IsEncName(v) ==
    /\ Len(v) > 0
    /\ v[1] \in Letters
    /\ \A i \in 1..Len(v) : v[i] \in Letters \cup Digits \cup {".", "_", "-"}

\* C21: a Declaration token carries an encoding only when the quoted value
\* is a letter followed by letters, digits, `.`, `_` or `-`; a declaration
\* whose encoding value is empty or begins with a digit, `.`, `_` or `-` is
\* the error InvalidToken(XMLDecl).
C21_EncodingName ==
    /\ (IsToken(ret, "Declaration") /\ ret.spans[2] # NoSpan)
            => IsEncName(to_str(text, ret.spans[2]))
    /\ (pulled /\ before.pos = 0 /\ before.state = "Start"
            /\ starts_with(text, 0, EncodingPrefix)
            /\ Len(text) > Len(EncodingPrefix)
            /\ text[Len(EncodingPrefix) + 1] \in Digits \cup {".", "_", "-", "\""})
            => IsError(ret) /\ ret.kind = "InvalidToken" /\ ret.sub = "XMLDecl"

\* A declaration whose encoding value begins with a digit has been yielded
\* as a Declaration token.
C21_Witness ==
    /\ IsToken(ret, "Declaration")
    /\ ret.spans[2] # NoSpan
    /\ ret.spans[2][1] < ret.spans[2][2]
    /\ text[ret.spans[2][1] + 1] \in Digits
    /\ before.state = "Start"


\* The entity declaration at offset n of t as far as its external ID:
\* `<!ENTITY` S ('%' S)? Name S ExternalID.  [ok, is_ge, pos: the offset after
\* the external ID]
ExternalEntityAt(t, n) ==
    LET no == [ok |-> FALSE, is_ge |-> FALSE, pos |-> -1]
        s1 == consume_spaces(t, n + 8)
    IN  IF ~starts_with(t, n, EntityLead) \/ ~s1.ok \/ at_end(t, s1.pos) THEN no ELSE
    LET is_ge == t[s1.pos + 1] # "%"
        s2 == IF is_ge THEN s1 ELSE consume_spaces(t, s1.pos + 1)
    IN  IF ~s2.ok \/ ~consume_name(t, s2.pos).ok THEN no ELSE
    LET s3 == consume_spaces(t, consume_name(t, s2.pos).pos)
    IN  IF ~s3.ok \/ ~parse_external_id(t, s3.pos).ok
            \/ parse_external_id(t, s3.pos).sub = "None" THEN no
        ELSE [ok |-> TRUE, is_ge |-> is_ge, pos |-> parse_external_id(t, s3.pos).pos]

\* The offset after an NDataDecl (S? 'NDATA' S Name) at offset q of t; -1 when
\* there is none.
NDataEnd(t, q) ==
    LET p1 == skip_spaces(t, q)
    IN  IF ~starts_with(t, p1, L_NDATA) \/ ~consume_spaces(t, p1 + 5).ok
            \/ ~skip_name(t, consume_spaces(t, p1 + 5).pos).ok THEN -1
        ELSE skip_name(t, consume_spaces(t, p1 + 5).pos).pos

\* t without its bytes at offsets q .. e - 1.
Without(t, q, e) == SubSeq(t, 1, q) \o SubSeq(t, e + 1, Len(t))

\* The entity declaration the latest call of next() met in state Dtd.
EntityMet == ExternalEntityAt(text, TokenStart(text, before.pos, "Dtd"))

\* The latest call of next() met, in state Dtd, an entity declaration with an
\* external ID and an NDataDecl after it.
NDataMet ==
    /\ pulled /\ before.state = "Dtd"
    /\ EntityMet.ok
    /\ NDataEnd(text, EntityMet.pos) # -1

\* C22: an NDataDecl after the external ID of a general entity is skipped:
\* the call returns what it returns for the buffer without the NDataDecl, an
\* EntityDeclaration token with the same spans when `>` follows; after the
\* external ID of a parameter entity it is the error InvalidToken(EntityDecl).
C22_NDataOnlyForGeneralEntities ==
    NDataMet =>
        IF EntityMet.is_ge
        THEN \E n \in {next_of(Without(text, EntityMet.pos, NDataEnd(text, EntityMet.pos)),
                               before)} :
                /\ Kinds(<<ret>>) = Kinds(<<n.ret>>)
                /\ ret.spans = n.ret.spans
                /\ IsToken(ret, "EntityDeclaration") =>
                    after.pos = n.tok.pos + (NDataEnd(text, EntityMet.pos) - EntityMet.pos)
                /\ starts_with(text, NDataEnd(text, EntityMet.pos), <<">">>)
                        => IsToken(ret, "EntityDeclaration")
        ELSE IsError(ret) /\ ret.kind = "InvalidToken" /\ ret.sub = "EntityDecl"

\* A general entity with an NDataDecl has been yielded as an
\* EntityDeclaration token.
C22_Witness ==
    /\ NDataMet /\ EntityMet.is_ge
    /\ IsToken(ret, "EntityDeclaration") /\ ret.sub = "Public"
    /\ after.pos = NDataEnd(text, EntityMet.pos) + 1


\* C23: the cursor is always an offset between 0 and the length of the
\* buffer, and no call of next(), whether it returns a token, an error or
\* nothing, leaves the cursor before the offset it found it at.
C23_CursorMonotonic ==
    /\ pos \in 0..Len(text)
    /\ before.pos \in 0..Len(text)
    /\ after.pos \in 0..Len(text)
    /\ before.pos <= after.pos
    /\ after.pos = pos
    /\ \A i \in 1..Len(results) : \A k \in 1..Len(results[i].spans) :
            results[i].spans[k] = NoSpan
                \/ (0 <= results[i].spans[k][1]
                        /\ results[i].spans[k][1] <= results[i].spans[k][2]
                        /\ results[i].spans[k][2] <= pos)

\* A call that failed after two tokens has moved the cursor forward to the
\* end of the buffer.
C23_Witness ==
    /\ Len(results) = 3
    /\ IsError(ret)
    /\ 0 < before.pos /\ before.pos < after.pos
    /\ after.pos = Len(text)


\* `<!DOCTYPE`
DoctypeLead == <<"<", "!">> \o L_DOCTYPE

\* r is a DtdStart or an EmptyDtd token.
IsDoctype(r) == IsToken(r, "DtdStart") \/ IsToken(r, "EmptyDtd")

\* C24: the results hold at most one DtdStart or EmptyDtd token, and no
\* ElementStart token before it; a call of next() that meets `<!DOCTYPE` in
\* state AfterDtd, Elements or AfterElements returns the error
\* UnexpectedToken(DoctypeDecl); and when fragment mode is set before the
\* first call, no DtdStart or EmptyDtd token is returned.
C24_OneDoctypeBeforeRoot ==
    /\ \A i \in 1..Len(results) :
        IsDoctype(results[i]) =>
            \A j \in 1..(i - 1) :
                ~IsDoctype(results[j]) /\ ~IsToken(results[j], "ElementStart")
    /\ IsDoctype(ret) => before.state = "Start" /\ ~before.fragment_parsing
    /\ (pulled /\ before.state \in {"AfterDtd", "Elements", "AfterElements"}
            /\ starts_with(text, TokenStart(text, before.pos, before.state), DoctypeLead))
            => IsError(ret) /\ ret.kind = "UnexpectedToken" /\ ret.sub = "DoctypeDecl"
    /\ (fragment_parsing /\ ~late_fragment)
            => \A i \in 1..Len(results) : ~IsDoctype(results[i])

\* A second DOCTYPE after the first one has been refused.
C24_Witness ==
    /\ ~fragment_parsing
    /\ Len(results) = 2
    /\ IsDoctype(results[1])
    /\ before.state = "AfterDtd"
    /\ starts_with(text, TokenStart(text, before.pos, before.state), DoctypeLead)
    /\ IsError(ret) /\ ret.kind = "UnexpectedToken" /\ ret.sub = "DoctypeDecl"


\* `<a`
OpenTagName == <<"<", "a">>

\* `<a>`
OpenTag == <<"<", "a", ">">>

\* C25: a call of next() that finds the cursor at the end of the buffer
\* returns nothing, in every state and at every depth: after a token that
\* ends the buffer the next call returns nothing, and `<a` (state Attributes),
\* `<!DOCTYPE a [` (state Dtd) and `<a>` (depth 1) yield their tokens and
\* then nothing, without an error.
C25_EndAtTokenBoundary ==
    /\ (pulled /\ before.pos = Len(text)) => ret = None /\ after.pos = Len(text)
    /\ (ret.tag = "Token" /\ after.pos = Len(text)) =>
        /\ \A i \in 1..Len(results) : ~IsError(results[i])
        /\ \A st \in States, frag \in BOOLEAN :
                next_of(text, Tokenizer(pos, st, depth, frag)).ret = None
    /\ (text \in {OpenTagName, DtdPrefix, OpenTag} /\ ~fragment_parsing) =>
        /\ \A i \in 1..Len(results) : ~IsError(results[i])
        /\ ~IsError(ret)
        /\ (pulled /\ ret = None) =>
            Len(results) = (IF text = OpenTag THEN 2 ELSE 1)

\* After the ElementStart of `<a` a call in state Attributes has returned
\* nothing.
C25_Witness ==
    /\ text = OpenTagName /\ ~fragment_parsing
    /\ Len(results) = 1 /\ IsToken(results[1], "ElementStart")
    /\ before.state = "Attributes" /\ before.pos = Len(text)
    /\ ret = None


\* The number of ElementEnd tokens of variant sub among rs.
CountEnds(rs, sub) ==
    Cardinality({i \in 1..Len(rs) : IsToken(rs[i], "ElementEnd") /\ rs[i].sub = sub})

\* C26: while fragment mode is off, state Elements implies a depth of at
\* least 1 and state AfterElements implies depth 0; an ElementEnd::Close is
\* returned only at a depth greater than zero, so that the decrement never
\* saturates, and the depth is the number of ElementEnd::Open tokens returned
\* minus the number of ElementEnd::Close tokens returned.
C26_DepthWithoutFragmentMode ==
    ~fragment_parsing =>
        /\ state = "Elements" => depth >= 1
        /\ state = "AfterElements" => depth = 0
        /\ before.state = "Elements" => before.depth >= 1
        /\ (IsToken(ret, "ElementEnd") /\ ret.sub = "Close")
                => before.state = "Elements" /\ before.depth > 0
                    /\ after.depth = before.depth - 1
        /\ depth = CountEnds(results, "Open") - CountEnds(results, "Close")

\* Two elements have been opened and the inner one closed: the state is
\* Elements at depth 1.
C26_Witness ==
    /\ ~fragment_parsing
    /\ CountEnds(results, "Open") = 2 /\ CountEnds(results, "Close") = 1
    /\ IsToken(ret, "ElementEnd") /\ ret.sub = "Close"
    /\ state = "Elements" /\ depth = 1


\* The number of lead bytes parse_token_type advances over for a construct
\* that begins with `<`, which its recognizer subtracts from the cursor to
\* recover the start of the token.
Lead(token_type) ==
    CASE token_type = "XMLDecl" -> 6
      [] token_type = "PI" -> 2
      [] token_type = "DoctypeDecl" -> 9
      [] token_type = "EntityDecl" -> 8
      [] token_type = "CDSect" -> 9
      [] token_type = "ElementStart" -> 1
      [] token_type = "ElementClose" -> 2
      [] token_type = "Comment" -> 4

\* The latest call of next() classified a construct that begins with `<`.
LtClassified ==
    /\ pulled
    /\ before.state \in {"Start", "Dtd", "AfterDtd", "Elements", "AfterElements"}
    /\ Classified.ok /\ Classified.tt \in LtConstructs

\* C27: when a call of next() classifies a construct that begins with `<`,
\* the cursor its recognizer is entered with is the offset of the `<` plus the
\* construct's lead bytes, hence at least the lead bytes: the start the
\* recognizer computes is never negative and never clamped, and the error of
\* a failed recognizer is positioned at exactly the cursor minus the lead
\* bytes.
C27_LeadBytesConsumed ==
    LtClassified =>
        /\ Classified.pos >= Lead(Classified.tt)
        /\ Classified.pos - Lead(Classified.tt)
                = TokenStart(text, before.pos, before.state)
        /\ (IsError(ret) /\ ret.kind = "InvalidToken") =>
                ret.off = Classified.pos - Lead(ret.sub)

\* A comment at offset 0 has failed: its recognizer was entered at offset 4
\* and positioned the error at offset 0.
C27_Witness ==
    /\ LtClassified
    /\ Classified.tt = "Comment" /\ Classified.pos = 4
    /\ IsError(ret) /\ ret.kind = "InvalidToken" /\ ret.sub = "Comment"
    /\ ret.off = 0

====
